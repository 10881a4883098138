----------------------------- MODULE InfluxErrors -----------------------------
(***************************************************************************)
(* StoreMetrics of the InfluxDB store under concurrent requests.  All calls  *)
(* put their points into one buffer of the client library, whose writer      *)
(* sends what a Flush found there as one batch; Flush returns when the       *)
(* writer is done with what was handed over.  The error of a failed batch is *)
(* offered on one channel that all calls share.                              *)
(*                                                                         *)
(* Each call starts a goroutine that passes errors from there to the call's  *)
(* own errChan, which holds one; the call looks at errChan for 100 ms and    *)
(* answers.  The goroutine does not end with the call: it goes on taking     *)
(* errors, until errChan is full and nobody is left to empty it.             *)
(*                                                                         *)
(* The library is external and modelled as far as the code uses it.  Whether *)
(* its writer waits until an error was taken, or leaves one in the channel   *)
(* and skips the next, is not for this code to say: writerWaits is either.   *)
(* A writer that waits holds up every call that flushes.                     *)
(***************************************************************************)
EXTENDS Integers, FiniteSets, Sequences

CONSTANT Calls  \* calls of StoreMetrics, each of another request and node

VARIABLES
  writerWaits,  \* whether the writer stands still until its error was taken
  pc,        \* pc[c]: where call c is
  buffer,    \* the calls that have points in the write buffer
  batches,   \* handed over and not yet written, oldest first
  failed,    \* how many errors of failed batches were offered
  offered,   \* the failed batch whose error the writer offers
  listener,  \* listener[c]: the goroutine that call c started
  held,      \* held[c]: the error it took and has not passed on yet
  errChan,   \* errChan[c]: the error in call c's channel
  answer     \* answer[c]: the batch whose error call c answered with

vars == <<writerWaits, pc, buffer, batches, failed, offered, listener, held, errChan, answer>>
library == <<writerWaits, buffer, batches, failed>>

(* A batch is the set of the calls that have points in it.                   *)
Batch == (SUBSET Calls) \ {{}}
None == {}
Error == Batch \cup {None}

TypeOK ==
  /\ writerWaits \in BOOLEAN
  /\ pc \in [Calls -> {"points", "more", "flushing", "flushed", "waiting", "ok", "error"}]
  /\ buffer \subseteq Calls
  /\ batches \in Seq(Batch)
  /\ failed \in Nat
  /\ offered \in Error
  /\ listener \in [Calls -> {"none", "listening", "passing"}]
  /\ held \in [Calls -> Error]
  /\ errChan \in [Calls -> Error]
  /\ answer \in [Calls -> Error]

Init ==
  /\ writerWaits \in BOOLEAN
  /\ pc = [c \in Calls |-> "points"]
  /\ buffer = {} /\ batches = <<>> /\ failed = 0 /\ offered = None
  /\ listener = [c \in Calls |-> "none"]
  /\ held = [c \in Calls |-> None]
  /\ errChan = [c \in Calls |-> None]
  /\ answer = [c \in Calls |-> None]
-----------------------------------------------------------------------------
(* WritePoint for the first points of call c, and for the rest; the flush of *)
(* another call in between takes the first ones with it.                     *)
WritePoints(c) ==
  /\ \/ pc[c] = "points" /\ pc' = [pc EXCEPT ![c] = "more"] /\ UNCHANGED batches
     \/ pc[c] = "more" /\ UNCHANGED <<pc, batches>> /\ c \notin buffer
  /\ buffer' = buffer \cup {c}
  /\ UNCHANGED <<writerWaits, failed, offered, listener, held, errChan, answer>>

(* s.writeAPI.Flush() hands over what is buffered, of whichever call, as one *)
(* batch.  Metrics without a known part have no point.                       *)
Flush(c) ==
  /\ pc[c] \in {"points", "more"}
  /\ pc' = [pc EXCEPT ![c] = "flushing"]
  /\ batches' = IF buffer = {} THEN batches ELSE Append(batches, buffer)
  /\ buffer' = {}
  /\ UNCHANGED <<writerWaits, failed, offered, listener, held, errChan, answer>>

(* The writer can turn to the next thing: an error nobody took holds it up   *)
(* if it waits.                                                             *)
WriterFree == offered = None \/ ~writerWaits

(* ... and returns when the writer has nothing left to do.                   *)
FlushReturns(c) ==
  /\ pc[c] = "flushing" /\ batches = <<>> /\ WriterFree
  /\ pc' = [pc EXCEPT ![c] = "flushed"]
  /\ UNCHANGED <<library, offered, listener, held, errChan, answer>>

(* go func() { for err := range s.writeAPI.Errors() ... }(), and the select. *)
Listen(c) ==
  /\ pc[c] = "flushed"
  /\ pc' = [pc EXCEPT ![c] = "waiting"]
  /\ listener' = [listener EXCEPT ![c] = "listening"]
  /\ UNCHANGED <<library, offered, held, errChan, answer>>

(* case err := <-errChan.                                                    *)
AnswerError(c) ==
  /\ pc[c] = "waiting" /\ errChan[c] # None
  /\ pc' = [pc EXCEPT ![c] = "error"]
  /\ answer' = [answer EXCEPT ![c] = errChan[c]]
  /\ errChan' = [errChan EXCEPT ![c] = None]
  /\ UNCHANGED <<library, offered, listener, held>>

(* A plausible slip: the goroutine is ended with the call that started it.   *)
AnswerSuccessAndEnd(c) ==
  /\ pc[c] = "waiting"
  /\ pc' = [pc EXCEPT ![c] = "ok"]
  /\ listener' = [listener EXCEPT ![c] = "none"]
  /\ UNCHANGED <<library, offered, held, errChan, answer>>

(* case <-time.After(100 * time.Millisecond): the write is taken to have     *)
(* succeeded.                                                               *)
AnswerSuccess(c) ==
  /\ pc[c] = "waiting"
  /\ pc' = [pc EXCEPT ![c] = "ok"]
  /\ UNCHANGED <<library, offered, listener, held, errChan, answer>>

StoreMetrics(c) ==
  \/ WritePoints(c) \/ Flush(c) \/ FlushReturns(c) \/ Listen(c)
  \/ AnswerError(c) \/ AnswerSuccess(c)
-----------------------------------------------------------------------------
(* A goroutine takes the error that is offered, whoever's write it is of.    *)
Take(c) ==
  /\ listener[c] = "listening" /\ offered # None
  /\ listener' = [listener EXCEPT ![c] = "passing"]
  /\ held' = [held EXCEPT ![c] = offered]
  /\ offered' = None
  /\ UNCHANGED <<pc, library, errChan, answer>>

(* A plausible slip: errChan without its place for one error.                *)
HasNoPlace(c) == errChan[c] = None /\ pc[c] = "waiting"

(* make(chan error, 1): a send goes through while nothing is in the channel. *)
HasRoom(c) == errChan[c] = None

(* errChan <- err, when it goes through, and the line in the log.            *)
Pass(c) ==
  /\ listener[c] = "passing" /\ HasRoom(c)
  /\ errChan' = [errChan EXCEPT ![c] = held[c]]
  /\ held' = [held EXCEPT ![c] = None]
  /\ listener' = [listener EXCEPT ![c] = "listening"]
  /\ UNCHANGED <<pc, library, offered, answer>>
-----------------------------------------------------------------------------
(* The library's writer.  A batch is written, or it fails and its error is   *)
(* skipped: nobody asked for the channel yet, or nobody is ready to receive. *)
BatchWritten ==
  /\ WriterFree /\ batches # <<>>
  /\ batches' = Tail(batches)
  /\ UNCHANGED <<writerWaits, pc, buffer, failed, offered, listener, held, errChan, answer>>

(* A batch fails and its error is offered.                                   *)
BatchFails ==
  /\ offered = None /\ batches # <<>>
  /\ \E c \in Calls : listener[c] # "none"
  /\ batches' = Tail(batches)
  /\ offered' = Head(batches) /\ failed' = failed + 1
  /\ UNCHANGED <<writerWaits, pc, buffer, listener, held, errChan, answer>>

Next ==
  \/ \E c \in Calls : StoreMetrics(c) \/ Take(c) \/ Pass(c)
  \/ BatchWritten \/ BatchFails

Spec == Init /\ [][Next]_vars
-----------------------------------------------------------------------------
Answered == {c \in Calls : pc[c] \in {"ok", "error"}}

(* Goroutines that cannot send, of calls that answered and receive no more.  *)
Stuck == {c \in Answered : listener[c] = "passing" /\ ~HasRoom(c)}

(* A goroutine is lost only after it swallowed two errors, so the leaked     *)
(* ones are at most half as many as the batches that failed.                 *)
StuckTookTwo == 2 * Cardinality(Stuck) <= failed

(* Nobody will take the offered error: no goroutine listens or comes to      *)
(* listen again, and no call will start one.                                *)
Unheard ==
  /\ offered # None
  /\ \A c \in Calls :
       /\ pc[c] \notin {"flushed", "waiting"}
       /\ listener[c] # "listening"
       /\ listener[c] = "passing" => ~HasRoom(c)

(* It comes to this, the hang of a writer that waits and of every call that  *)
(* flushes, only after each answered call left a goroutine with two errors.  *)
UnheardComesLate == Unheard => failed > 2 * Cardinality(Answered)
=============================================================================
