----------------------- MODULE AggregatorLifecycleProofs -----------------------
(* Proofs about Start and Shutdown, for any number of nodes, handlers and    *)
(* samples.                                                                  *)
EXTENDS AggregatorLifecycle, TLAPS

(* The wait groups count the goroutines that run, and each goroutine runs     *)
(* from the statement of Start that starts it.                               *)
Counted ==
  /\ starter \in {"context", "loop"} <=> loop = "none"
  /\ procWg = IF loop \in {"select", "batch"} THEN 1 ELSE 0
  /\ starter # "returned" <=> cleanup = "none"
  /\ serverWg = IF cleanup = "ticking" THEN 1 ELSE 0

(* A batch is left over only while the loop is in it.                        *)
BatchInLoop == loop # "batch" => DOMAIN batch = {} /\ inFlight = None

(* What Shutdown has done before the statement it is at.  orderly is TRUE     *)
(* only if nothing was left to be started.                                   *)
Stopped ==
  /\ stopper # "running" => cancelled
  /\ orderly => starter = "returned" /\ stopper # "running"
  /\ stopper \in {"drain", "processor", "join", "returned"} => http = "closed"
  /\ orderly /\ stopper \in {"join", "returned"} => loop = "ended"
  /\ result = "ok" => stopper = "returned"
  /\ orderly /\ result = "ok" => cleanup = "ended"

IInv == TypeOK /\ Counted /\ BatchInLoop /\ Stopped /\ RequestsDrained

LEMMA InitIInv == Init => IInv
<1> SUFFICES ASSUME Init PROVE IInv
  OBVIOUS
<1>1. TypeOK
  <2>1. cache \in [Nodes -> 0..MaxSamples]
    BY LifecycleAssumption DEF Init
  <2>2. DOMAIN batch = {} /\ batch \in [DOMAIN batch -> Sample]
    BY DEF Init
  <2>3. DOMAIN batch \subseteq Nodes /\ inFlight \in DOMAIN batch \union {None}
    BY <2>2 DEF Init
  <2>4. handling \in [Handlers -> Nodes \union {None}] /\ late \subseteq Nodes \X Sample
    BY DEF Init
  <2>5. procWg \in 0..1 /\ serverWg \in 0..1
    BY DEF Init
  <2> QED
    BY <2>1, <2>2, <2>3, <2>4, <2>5 DEF Init, TypeOK
<1>2. Counted /\ BatchInLoop /\ Stopped /\ RequestsDrained
  BY DEF Init, Counted, BatchInLoop, Stopped, RequestsDrained
<1> QED
  BY <1>1, <1>2 DEF IInv

(* The statements of Start.                                                  *)
LEMMA StartStep == IInv /\ Start => IInv'
<1> SUFFICES ASSUME IInv, Start PROVE IInv'
  OBVIOUS
<1> USE DEF IInv, serving, processing, evicting, stopping
<1>1. CASE StartContext
  <2>1. TypeOK' /\ RequestsDrained'
    BY <1>1 DEF StartContext, TypeOK, RequestsDrained
  <2>2. Counted' /\ BatchInLoop' /\ Stopped'
    BY <1>1 DEF StartContext, Counted, BatchInLoop, Stopped
  <2> QED
    BY <2>1, <2>2
<1>2. CASE StartLoop
  <2>1. procWg = 0 /\ procWg' = 1 /\ loop = "none" /\ loop' = "select"
    BY <1>2 DEF StartLoop, Counted
  <2>2. TypeOK' /\ RequestsDrained'
    BY <1>2, <2>1 DEF StartLoop, TypeOK, RequestsDrained
  <2>3. Counted' /\ BatchInLoop' /\ Stopped'
    BY <1>2, <2>1 DEF StartLoop, Counted, BatchInLoop, Stopped
  <2> QED
    BY <2>2, <2>3
<1>3. CASE StartListening
  <2>1. TypeOK' /\ RequestsDrained'
    BY <1>3 DEF StartListening, TypeOK, RequestsDrained
  <2>2. Counted' /\ BatchInLoop' /\ Stopped'
    BY <1>3 DEF StartListening, Counted, BatchInLoop, Stopped
  <2> QED
    BY <2>1, <2>2
<1>4. CASE StartCleanup
  <2>1. serverWg = 0 /\ serverWg' = 1
    BY <1>4 DEF StartCleanup, Counted
  <2>2. TypeOK' /\ RequestsDrained'
    BY <1>4, <2>1 DEF StartCleanup, TypeOK, RequestsDrained
  <2>3. Counted' /\ BatchInLoop' /\ Stopped'
    BY <1>4, <2>1 DEF StartCleanup, Counted, BatchInLoop, Stopped
  <2> QED
    BY <2>2, <2>3
<1> QED
  BY <1>1, <1>2, <1>3, <1>4 DEF Start

(* The HTTP server: a closed one takes no request.                           *)
LEMMA ServeStep == IInv /\ Serve => IInv'
<1> SUFFICES ASSUME IInv, Serve PROVE IInv'
  OBVIOUS
<1> USE DEF IInv, serving, processing, evicting, stopping
<1>1. CASE ListenAndServe
  <2>1. TypeOK' /\ RequestsDrained'
    BY <1>1 DEF ListenAndServe, TypeOK, RequestsDrained
  <2>2. Counted' /\ BatchInLoop' /\ Stopped'
    BY <1>1 DEF ListenAndServe, Counted, BatchInLoop, Stopped
  <2> QED
    BY <2>1, <2>2
<1>2. ASSUME NEW h \in Handlers, Arrive(h) PROVE IInv'
  <2>1. PICK n \in Nodes : handling' = [handling EXCEPT ![h] = n]
    BY <1>2 DEF Arrive
  <2>2. TypeOK'
    BY <1>2, <2>1 DEF Arrive, TypeOK
  <2>3. RequestsDrained'
    BY <1>2 DEF Arrive, RequestsDrained, Stopped
  <2>4. Counted' /\ BatchInLoop' /\ Stopped'
    BY <1>2 DEF Arrive, Counted, BatchInLoop, Stopped
  <2> QED
    BY <2>2, <2>3, <2>4
<1>3. ASSUME NEW h \in Handlers, HandleNodeMetrics(h) \/ HandleOther(h) PROVE IInv'
  <2>1. /\ handling' = [handling EXCEPT ![h] = None]
        /\ UNCHANGED <<starter, http, processing, evicting, stopping>>
    BY <1>3 DEF HandleNodeMetrics, HandleOther
  <2>2. cache' \in [Nodes -> 0..MaxSamples]
    <3>1. CASE HandleOther(h)
      BY <3>1 DEF HandleOther, TypeOK
    <3>2. CASE HandleNodeMetrics(h)
      <4>1. PICK n : n = handling[h]
        OBVIOUS
      <4>2. n \in Nodes /\ cache[n] \in 0..MaxSamples /\ cache[n] < MaxSamples
        BY <3>2, <4>1 DEF HandleNodeMetrics, TypeOK
      <4>3. cache[n] + 1 \in 0..MaxSamples
        BY <4>2, LifecycleAssumption
      <4>4. cache' = [cache EXCEPT ![n] = cache[n] + 1]
        BY <3>2, <4>1 DEF HandleNodeMetrics
      <4> QED
        BY <4>2, <4>3, <4>4 DEF TypeOK
    <3> QED
      BY <1>3, <3>1, <3>2
  <2>3. TypeOK'
    BY <2>1, <2>2 DEF TypeOK
  <2>4. RequestsDrained'
    BY <2>1 DEF RequestsDrained, TypeOK
  <2>5. Counted' /\ BatchInLoop' /\ Stopped'
    BY <2>1 DEF Counted, BatchInLoop, Stopped
  <2> QED
    BY <2>3, <2>4, <2>5
<1> QED
  BY <1>1, <1>2, <1>3 DEF Serve

(* One forward of a batch ends, in whatever way.                             *)
LEMMA ForwardEnds ==
  ASSUME IInv, NEW n \in DOMAIN batch, batch' = Without(n), inFlight' = None,
         loop = "batch", late' \subseteq Nodes \X Sample,
         UNCHANGED <<starter, loop, procWg, serving, evicting, stopping>>
  PROVE  IInv'
<1> USE DEF IInv, serving, processing, evicting, stopping
<1>1. DOMAIN batch' \subseteq Nodes /\ batch' \in [DOMAIN batch' -> Sample]
  BY DEF Without, TypeOK
<1>2. TypeOK' /\ RequestsDrained'
  BY <1>1 DEF TypeOK, RequestsDrained
<1>3. Counted' /\ BatchInLoop' /\ Stopped'
  BY DEF Counted, BatchInLoop, Stopped
<1> QED
  BY <1>2, <1>3

(* The processor's loop.                                                     *)
LEMMA ProcessStep == IInv /\ Process => IInv'
<1> SUFFICES ASSUME IInv, Process PROVE IInv'
  OBVIOUS
<1> USE DEF IInv, serving, processing, evicting, stopping
<1>1. CASE Tick
  <2>1. /\ DOMAIN batch' \subseteq Nodes /\ batch' \in [DOMAIN batch' -> Sample]
        /\ inFlight' = None
    BY <1>1 DEF Tick, BatchInLoop, TypeOK, Sample
  <2>2. TypeOK' /\ RequestsDrained'
    BY <1>1, <2>1 DEF Tick, TypeOK, RequestsDrained
  <2>3. Counted' /\ BatchInLoop' /\ Stopped'
    BY <1>1 DEF Tick, Counted, BatchInLoop, Stopped
  <2> QED
    BY <2>2, <2>3
<1>2. CASE LoopEnds
  <2>1. procWg = 1 /\ procWg' = 0 /\ loop = "select" /\ loop' = "ended"
    BY <1>2 DEF LoopEnds, Counted
  <2>2. TypeOK' /\ RequestsDrained'
    BY <1>2, <2>1 DEF LoopEnds, TypeOK, RequestsDrained
  <2>3. Counted' /\ BatchInLoop' /\ Stopped'
    BY <1>2, <2>1 DEF LoopEnds, Counted, BatchInLoop, Stopped
  <2> QED
    BY <2>2, <2>3
<1>3. CASE BatchEnds
  <2>1. inFlight = None
    BY <1>3 DEF BatchEnds, TypeOK
  <2>2. TypeOK' /\ RequestsDrained'
    BY <1>3 DEF BatchEnds, TypeOK, RequestsDrained
  <2>3. Counted' /\ BatchInLoop' /\ Stopped'
    BY <1>3, <2>1 DEF BatchEnds, Counted, BatchInLoop, Stopped
  <2> QED
    BY <2>2, <2>3
<1>4. CASE ForwardAnswered \/ ForwardGivenUp
  <2>1. inFlight # None /\ inFlight \in DOMAIN batch /\ loop = "batch"
    BY <1>4 DEF ForwardAnswered, ForwardGivenUp, TypeOK, BatchInLoop
  <2>2. /\ batch' = Without(inFlight) /\ inFlight' = None
        /\ UNCHANGED <<starter, loop, procWg, serving, evicting, stopping>>
    BY <1>4 DEF ForwardAnswered, ForwardGivenUp
  <2>3. batch[inFlight] \in Sample /\ inFlight \in Nodes
    BY <2>1 DEF TypeOK
  <2>4. late' \subseteq Nodes \X Sample
    BY <1>4, <2>3 DEF ForwardAnswered, ForwardGivenUp, TypeOK
  <2> QED
    BY <2>1, <2>2, <2>4, ForwardEnds
<1>5. CASE LateForwardEnds
  <2>1. TypeOK' /\ RequestsDrained'
    BY <1>5 DEF LateForwardEnds, TypeOK, RequestsDrained
  <2>2. Counted' /\ BatchInLoop' /\ Stopped'
    BY <1>5 DEF LateForwardEnds, Counted, BatchInLoop, Stopped
  <2> QED
    BY <2>1, <2>2
<1>6. ASSUME NEW n \in Nodes, Forward(n) PROVE IInv'
  <2>1. TypeOK' /\ RequestsDrained'
    BY <1>6 DEF Forward, TypeOK, RequestsDrained
  <2>2. Counted' /\ BatchInLoop' /\ Stopped'
    BY <1>6 DEF Forward, Counted, BatchInLoop, Stopped
  <2> QED
    BY <2>1, <2>2
<1>7. ASSUME NEW n \in Nodes, ForwardCancelled(n) PROVE IInv'
  <2>1. /\ n \in DOMAIN batch /\ batch' = Without(n) /\ inFlight' = None
        /\ loop = "batch" /\ late' \subseteq Nodes \X Sample
        /\ UNCHANGED <<starter, loop, procWg, serving, evicting, stopping>>
    BY <1>7 DEF ForwardCancelled, TypeOK
  <2> QED
    BY <2>1, ForwardEnds
<1> QED
  BY <1>1, <1>2, <1>3, <1>4, <1>5, <1>6, <1>7 DEF Process

LEMMA CleanupStep == IInv /\ CleanupEnds => IInv'
<1> SUFFICES ASSUME IInv, CleanupEnds PROVE IInv'
  OBVIOUS
<1> USE DEF IInv, serving, processing, evicting, stopping
<1>1. serverWg = 1 /\ serverWg' = 0
  BY DEF CleanupEnds, Counted
<1>2. TypeOK' /\ RequestsDrained'
  BY <1>1 DEF CleanupEnds, TypeOK, RequestsDrained
<1>3. Counted' /\ BatchInLoop' /\ Stopped'
  BY <1>1 DEF CleanupEnds, Counted, BatchInLoop, Stopped
<1> QED
  BY <1>2, <1>3

(* The statements of Shutdown.  The two waits are where the wait groups say  *)
(* what has ended.                                                           *)
LEMMA ShutdownStep == IInv /\ Shutdown => IInv'
<1> SUFFICES ASSUME IInv, Shutdown PROVE IInv'
  OBVIOUS
<1> USE DEF IInv, serving, processing, evicting, stopping
<1>1. UNCHANGED <<starter, handling, cache, processing, evicting>>
  BY DEF Shutdown, Cancel, CloseListener, Drained, DrainTimesOut,
         ProcessorJoined, Joined, JoinTimesOut
<1>2. Counted' /\ BatchInLoop'
  BY <1>1 DEF Counted, BatchInLoop
<1>3. CASE Cancel
  BY <1>1, <1>2, <1>3 DEF Cancel, TypeOK, Stopped, RequestsDrained
<1>4. CASE CloseListener
  BY <1>1, <1>2, <1>4 DEF CloseListener, TypeOK, Stopped, RequestsDrained
<1>5. CASE Drained
  BY <1>1, <1>2, <1>5 DEF Drained, TypeOK, Stopped, RequestsDrained
<1>6. CASE DrainTimesOut
  BY <1>1, <1>2, <1>6 DEF DrainTimesOut, TypeOK, Stopped, RequestsDrained
<1>7. CASE ProcessorJoined
  <2>1. orderly => loop = "ended"
    BY <1>7 DEF ProcessorJoined, Counted, Stopped, TypeOK
  <2> QED
    BY <1>1, <1>2, <1>7, <2>1 DEF ProcessorJoined, TypeOK, Stopped, RequestsDrained
<1>8. CASE Joined
  <2>1. orderly => cleanup = "ended"
    BY <1>8 DEF Joined, Counted, Stopped, TypeOK
  <2> QED
    BY <1>1, <1>2, <1>8, <2>1 DEF Joined, TypeOK, Stopped, RequestsDrained
<1>9. CASE JoinTimesOut
  BY <1>1, <1>2, <1>9 DEF JoinTimesOut, TypeOK, Stopped, RequestsDrained
<1> QED
  BY <1>3, <1>4, <1>5, <1>6, <1>7, <1>8, <1>9 DEF Shutdown

LEMMA StepIInv == IInv /\ [Next]_vars => IInv'
<1>1. IInv /\ UNCHANGED vars => IInv'
  BY DEF vars, IInv, TypeOK, Counted, BatchInLoop, Stopped, RequestsDrained
<1> QED
  BY <1>1, StartStep, ServeStep, ProcessStep, CleanupStep, ShutdownStep DEF Next

LEMMA InvariantHolds == Spec => []IInv
BY InitIInv, StepIInv, PTL DEF Spec

(* Goroutines are counted once, and a forward is one of the running batch.   *)
THEOREM TypeCorrect == Spec => []TypeOK
BY InvariantHolds, PTL DEF IInv

(* A Shutdown that returned nil after a Start that was through left nothing  *)
(* running and no batch half forwarded.                                     *)
THEOREM ShutdownLeavesNothing == Spec => []ShutdownJoins
<1>1. IInv => ShutdownJoins
  BY DEF IInv, Stopped, BatchInLoop, ShutdownJoins
<1> QED
  BY <1>1, InvariantHolds, PTL

(* No request that came in before the signal is cut off by the drain.        *)
THEOREM RequestsAreAnswered == Spec => []RequestsDrained
BY InvariantHolds, PTL DEF IInv

(* After the cancellation what is outstanding only gets less.                *)
THEOREM NothingIsSentAnew == Spec => NothingNewSent
<1>1. IInv /\ [Next]_vars => [cancelled => Outstanding' \subseteq Outstanding]_vars
  <2> SUFFICES ASSUME IInv, Next, cancelled PROVE Outstanding' \subseteq Outstanding
    OBVIOUS
  <2> USE DEF serving, processing, evicting, stopping, Outstanding
  <2>1. CASE Start \/ Serve \/ CleanupEnds \/ Shutdown
    <3>1. late' = late /\ inFlight' = inFlight /\ batch' = batch
      BY <2>1 DEF Start, StartContext, StartLoop, StartListening, StartCleanup,
                  Serve, ListenAndServe, Arrive, HandleNodeMetrics, HandleOther,
                  CleanupEnds, Shutdown, Cancel, CloseListener, Drained,
                  DrainTimesOut, ProcessorJoined, Joined, JoinTimesOut
    <3> QED
      BY <3>1
  <2>2. CASE Tick
    BY <2>2 DEF Tick, IInv, BatchInLoop
  <2>3. CASE LoopEnds \/ BatchEnds
    BY <2>3 DEF LoopEnds, BatchEnds
  <2>4. CASE ForwardAnswered \/ ForwardGivenUp
    BY <2>4 DEF ForwardAnswered, ForwardGivenUp
  <2>5. CASE LateForwardEnds
    BY <2>5 DEF LateForwardEnds
  <2>6. ASSUME NEW n \in Nodes, Forward(n) \/ ForwardCancelled(n)
        PROVE  Outstanding' \subseteq Outstanding
    BY <2>6 DEF Forward, ForwardCancelled
  <2> QED
    BY <2>1, <2>2, <2>3, <2>4, <2>5, <2>6 DEF Next, Process
<1> QED
  BY <1>1, InvariantHolds, PTL DEF Spec, NothingNewSent
=============================================================================
