------------------------ MODULE AggregatorLifecycle ------------------------
(***************************************************************************)
(* Start and Shutdown of the aggregator, next to what they start and stop:  *)
(* the HTTP server with its request handlers, the processor's loop with its *)
(* batches and forwards, and the eviction ticker.                           *)
(*                                                                         *)
(* main runs Start on a goroutine of its own and calls Shutdown when a       *)
(* signal arrives, which may be at any moment, also in the middle of Start.  *)
(* Shutdown cancels the context shared by all, drains the HTTP server,       *)
(* joins the processor's loop, then joins the rest or gives up.  The         *)
(* processor's context is a child of the server's: p.cancel() in its         *)
(* Shutdown finds it cancelled.  The client's cancel is never set, and its   *)
(* Start and Shutdown change nothing else.                                  *)
(***************************************************************************)
EXTENDS Naturals

CONSTANTS
  Nodes,      \* the nodes that report
  Handlers,   \* request goroutines of the HTTP server
  MaxSamples, \* bound: samples accepted per node
  None        \* no node

ASSUME LifecycleAssumption == MaxSamples \in Nat /\ None \notin Nodes

VARIABLES
  starter,    \* the statement of Start the starting goroutine is at
  stopper,    \* the statement of Shutdown main is at
  cancelled,  \* s.ctx is cancelled
  result,     \* what Shutdown returned
  http,       \* the HTTP server
  handling,   \* handling[h]: the node whose report goroutine h serves, or None
  cache,      \* cache[n]: number of n's latest accepted sample, 0 for none
  loop,       \* the processor's goroutine
  procWg,     \* p.wg
  batch,      \* the part of the snapshot the running batch still has to forward
  inFlight,   \* the node whose forward is under way, or None
  late,       \* forwards given up on that the control plane may yet execute
  cleanup,    \* the eviction goroutine
  serverWg,   \* s.wg
  orderly,    \* history: Start had returned when Shutdown was called
  undrained   \* history: the HTTP server's shutdown timed out

vars == <<starter, stopper, cancelled, result, http, handling, cache, loop, procWg,
          batch, inFlight, late, cleanup, serverWg, orderly, undrained>>

serving == <<http, handling, cache>>
processing == <<loop, procWg, batch, inFlight, late>>
evicting == <<cleanup, serverWg>>
stopping == <<stopper, cancelled, result, orderly, undrained>>

Sample == 1..MaxSamples

TypeOK ==
  /\ starter \in {"context", "loop", "listen", "cleanup", "returned"}
  /\ stopper \in {"running", "close", "drain", "processor", "join", "returned"}
  /\ cancelled \in BOOLEAN
  /\ result \in {"none", "ok", "timeout"}
  /\ http \in {"none", "spawned", "serving", "closed"}
  /\ handling \in [Handlers -> Nodes \union {None}]
  /\ cache \in [Nodes -> 0..MaxSamples]
  /\ loop \in {"none", "select", "batch", "ended"}
  /\ procWg \in 0..1 /\ serverWg \in 0..1
  /\ DOMAIN batch \subseteq Nodes /\ batch \in [DOMAIN batch -> Sample]
  /\ inFlight \in DOMAIN batch \union {None}
  /\ late \subseteq Nodes \X Sample
  /\ cleanup \in {"none", "ticking", "ended"}
  /\ orderly \in BOOLEAN /\ undrained \in BOOLEAN

Init ==
  /\ starter = "context" /\ stopper = "running"
  /\ cancelled = FALSE /\ result = "none"
  /\ http = "none" /\ handling = [h \in Handlers |-> None]
  /\ cache = [n \in Nodes |-> 0]
  /\ loop = "none" /\ procWg = 0
  /\ batch = [n \in {} |-> 0] /\ inFlight = None /\ late = {}
  /\ cleanup = "none" /\ serverWg = 0
  /\ orderly = FALSE /\ undrained = FALSE
-----------------------------------------------------------------------------
(* Start, statement by statement, on its own goroutine.                      *)

(* processor.Start sets p.ctx and p.cancel.                                  *)
StartContext ==
  /\ starter = "context" /\ starter' = "loop"
  /\ UNCHANGED <<serving, processing, evicting, stopping>>

(* A plausible slip: the loop is not counted in the wait group.              *)
StartLoopUncounted ==
  /\ starter = "loop" /\ starter' = "listen"
  /\ loop' = "select"
  /\ UNCHANGED <<procWg, batch, inFlight, late, serving, evicting, stopping>>

(* p.wg.Add(1); go p.processMetrics().                                       *)
StartLoop ==
  /\ starter = "loop" /\ starter' = "listen"
  /\ loop' = "select" /\ procWg' = procWg + 1
  /\ UNCHANGED <<batch, inFlight, late, serving, evicting, stopping>>

StartListening ==
  /\ starter = "listen" /\ starter' = "cleanup"
  /\ http' = IF http = "none" THEN "spawned" ELSE http
  /\ UNCHANGED <<handling, cache, processing, evicting, stopping>>

(* s.wg.Add(1); go s.cleanupExpiredConnections().                            *)
StartCleanup ==
  /\ starter = "cleanup" /\ starter' = "returned"
  /\ cleanup' = "ticking" /\ serverWg' = serverWg + 1
  /\ UNCHANGED <<serving, processing, stopping>>
-----------------------------------------------------------------------------
(* The HTTP server: ListenAndServe refuses to start once Shutdown was        *)
(* called, which http = "closed" records.                                    *)
ListenAndServe ==
  /\ http = "spawned" /\ http' = "serving"
  /\ UNCHANGED <<starter, handling, cache, processing, evicting, stopping>>

Arrive(h) ==
  /\ http = "serving" /\ handling[h] = None
  /\ \E n \in Nodes : handling' = [handling EXCEPT ![h] = n]
  /\ UNCHANGED <<starter, http, cache, processing, evicting, stopping>>

(* handleNodeMetrics: the sample is cached and the report answered 200.      *)
HandleNodeMetrics(h) ==
  LET n == handling[h] IN
  /\ n # None
  /\ cache[n] < MaxSamples
  /\ cache' = [cache EXCEPT ![n] = @ + 1]
  /\ handling' = [handling EXCEPT ![h] = None]
  /\ UNCHANGED <<starter, http, processing, evicting, stopping>>

(* Any other request, or a report that is refused.                          *)
HandleOther(h) ==
  /\ handling[h] # None
  /\ handling' = [handling EXCEPT ![h] = None]
  /\ UNCHANGED <<starter, http, cache, processing, evicting, stopping>>
-----------------------------------------------------------------------------
(* The processor's loop.  With both the tick and the cancellation ready,     *)
(* select takes either.                                                     *)
Tick ==
  /\ loop = "select" /\ loop' = "batch"
  /\ batch' = [n \in {m \in Nodes : cache[m] # 0} |-> cache[n]]
  /\ UNCHANGED <<starter, procWg, inFlight, late, serving, evicting, stopping>>

(* A plausible slip: the loop's goroutine ends without wg.Done.              *)
LoopEndsUnnoticed ==
  /\ loop = "select" /\ cancelled
  /\ loop' = "ended"
  /\ UNCHANGED <<starter, procWg, batch, inFlight, late, serving, evicting, stopping>>

LoopEnds ==
  /\ loop = "select" /\ cancelled
  /\ loop' = "ended" /\ procWg' = procWg - 1
  /\ UNCHANGED <<starter, batch, inFlight, late, serving, evicting, stopping>>

Without(n) == [m \in DOMAIN batch \ {n} |-> batch[m]]

(* A plausible slip: the request's context is not derived from p.ctx.        *)
ForwardDetached(n) ==
  /\ loop = "batch" /\ inFlight = None /\ n \in DOMAIN batch
  /\ inFlight' = n
  /\ UNCHANGED <<starter, loop, procWg, batch, late, serving, evicting, stopping>>

(* forwardMetricsToControlPlane: the request goes out, unless its context,   *)
(* a child of p.ctx, is cancelled already.                                  *)
Forward(n) ==
  /\ loop = "batch" /\ inFlight = None /\ n \in DOMAIN batch
  /\ ~cancelled
  /\ inFlight' = n
  /\ UNCHANGED <<starter, loop, procWg, batch, late, serving, evicting, stopping>>

(* client.Do returns the error of the cancelled context without a request.   *)
ForwardCancelled(n) ==
  /\ loop = "batch" /\ inFlight = None /\ n \in DOMAIN batch
  /\ cancelled
  /\ batch' = Without(n)
  /\ UNCHANGED <<starter, loop, procWg, inFlight, late, serving, evicting, stopping>>

(* The control plane answered, whatever it answered.                        *)
ForwardAnswered ==
  /\ inFlight # None
  /\ batch' = Without(inFlight) /\ inFlight' = None
  /\ UNCHANGED <<starter, loop, procWg, late, serving, evicting, stopping>>

(* The 5 seconds are over or the context was cancelled under way: the        *)
(* request may still be executed.                                           *)
ForwardGivenUp ==
  /\ inFlight # None
  /\ late' = late \union {<<inFlight, batch[inFlight]>>}
  /\ batch' = Without(inFlight) /\ inFlight' = None
  /\ UNCHANGED <<starter, loop, procWg, serving, evicting, stopping>>

(* The control plane executes a request given up on, or it is lost.          *)
LateForwardEnds ==
  /\ \E f \in late : late' = late \ {f}
  /\ UNCHANGED <<starter, loop, procWg, batch, inFlight, serving, evicting, stopping>>

BatchEnds ==
  /\ loop = "batch" /\ DOMAIN batch = {}
  /\ loop' = "select"
  /\ UNCHANGED <<starter, procWg, batch, inFlight, late, serving, evicting, stopping>>

(* cleanupExpiredConnections leaves its loop.                               *)
CleanupEnds ==
  /\ cleanup = "ticking" /\ cancelled
  /\ cleanup' = "ended" /\ serverWg' = serverWg - 1
  /\ UNCHANGED <<starter, serving, processing, stopping>>
-----------------------------------------------------------------------------
(* Shutdown, statement by statement, on the main goroutine.                  *)

(* The signal; s.cancel().                                                  *)
Cancel ==
  /\ stopper = "running" /\ stopper' = "close"
  /\ cancelled' = TRUE
  /\ orderly' = (starter = "returned")
  /\ UNCHANGED <<starter, result, undrained, serving, processing, evicting>>

(* httpServer.Shutdown closes the listener, and then waits.                  *)
CloseListener ==
  /\ stopper = "close" /\ stopper' = "drain"
  /\ http' = "closed"
  /\ UNCHANGED <<starter, cancelled, result, handling, cache, orderly, undrained,
                 processing, evicting>>

(* A plausible slip: Close instead of Shutdown, which does not wait.         *)
DrainedClosing ==
  /\ stopper = "drain" /\ stopper' = "processor"
  /\ UNCHANGED <<starter, cancelled, result, orderly, undrained, serving, processing, evicting>>

Drained ==
  /\ stopper = "drain" /\ stopper' = "processor"
  /\ \A h \in Handlers : handling[h] = None
  /\ UNCHANGED <<starter, cancelled, result, orderly, undrained, serving, processing, evicting>>

(* 15 seconds are over with handlers still at work: logged, and no more.     *)
DrainTimesOut ==
  /\ stopper = "drain" /\ stopper' = "processor"
  /\ \E h \in Handlers : handling[h] # None
  /\ undrained' = TRUE
  /\ UNCHANGED <<starter, cancelled, result, orderly, serving, processing, evicting>>

(* processor.Shutdown: p.wg.Wait(), without a timeout.                       *)
ProcessorJoined ==
  /\ stopper = "processor" /\ procWg = 0
  /\ stopper' = "join"
  /\ UNCHANGED <<starter, cancelled, result, orderly, undrained, serving, processing, evicting>>

(* s.wg.Wait() on a goroutine of its own, which closes done.                 *)
Joined ==
  /\ stopper = "join" /\ serverWg = 0
  /\ stopper' = "returned" /\ result' = "ok"
  /\ UNCHANGED <<starter, cancelled, orderly, undrained, serving, processing, evicting>>

JoinTimesOut ==
  /\ stopper = "join"
  /\ stopper' = "returned" /\ result' = "timeout"
  /\ UNCHANGED <<starter, cancelled, orderly, undrained, serving, processing, evicting>>

Start == StartContext \/ StartLoop \/ StartListening \/ StartCleanup

Serve == ListenAndServe \/ \E h \in Handlers : Arrive(h) \/ HandleNodeMetrics(h) \/ HandleOther(h)

Process ==
  \/ Tick \/ LoopEnds \/ BatchEnds \/ ForwardAnswered \/ ForwardGivenUp \/ LateForwardEnds
  \/ \E n \in Nodes : Forward(n) \/ ForwardCancelled(n)

Shutdown ==
  \/ Cancel \/ CloseListener \/ Drained \/ DrainTimesOut
  \/ ProcessorJoined \/ Joined \/ JoinTimesOut

Next == Start \/ Serve \/ Process \/ CleanupEnds \/ Shutdown

Spec == Init /\ [][Next]_vars

(* What Go and the timeouts guarantee: the loop's goroutine is scheduled, a  *)
(* forward ends within 5 seconds, Shutdown moves on.  select chooses at      *)
(* random among the ready cases, so that the cancellation is taken some      *)
(* time even if a tick is ready each time: strong fairness.                  *)
FairSpec ==
  /\ Spec
  /\ SF_vars(LoopEnds)
  /\ WF_vars(BatchEnds)
  /\ WF_vars(\E n \in Nodes : Forward(n) \/ ForwardCancelled(n))
  /\ WF_vars(ForwardAnswered \/ ForwardGivenUp)
  /\ WF_vars(CloseListener)
  /\ WF_vars(Drained \/ DrainTimesOut)
  /\ WF_vars(ProcessorJoined)
  /\ WF_vars(Joined \/ JoinTimesOut)
-----------------------------------------------------------------------------
(* "所有goroutine已完成": a Shutdown that returned nil left neither the loop   *)
(* nor the eviction behind, and no batch half forwarded, if Start was through *)
(* when it was called.                                                      *)
ShutdownJoins ==
  result = "ok" /\ orderly =>
    loop = "ended" /\ cleanup = "ended" /\ inFlight = None /\ DOMAIN batch = {}

(* Unless the 15 seconds ran out, every request that was under way when the  *)
(* signal came is answered before Shutdown goes on to the processor, and      *)
(* none comes in later, even if the server starts to listen only now.         *)
RequestsDrained ==
  stopper \in {"processor", "join", "returned"} /\ ~undrained =>
    \A h \in Handlers : handling[h] = None

(* Requests the control plane may still see: the one under way and those     *)
(* given up on.                                                             *)
Outstanding ==
  late \union (IF inFlight = None THEN {} ELSE {<<inFlight, batch[inFlight]>>})

(* From the cancellation on no forward is begun, though the loop may still   *)
(* run through batches: what a stopping aggregator has outstanding only gets *)
(* less, and cannot reach the control plane after a successor's samples.     *)
NothingNewSent == [][cancelled => Outstanding' \subseteq Outstanding]_vars

(* Shutdown returns, although it waits for the processor without a timeout.  *)
ShutdownReturns == (stopper # "running") ~> (stopper = "returned")
=============================================================================
