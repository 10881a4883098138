----------------------------- MODULE NetworkRates -----------------------------
(***************************************************************************)
(* The network rates in the samples of the agent's loop (the goroutine of    *)
(* collectNetworkInfo that reads the interface counters), on top of          *)
(* FailedReports, whose pauses and files decide when the next collection     *)
(* begins.  A rate is the difference of two readings, in unsigned 64-bit      *)
(* arithmetic, over the time between the starts of their collections; a      *)
(* reading and its time are kept for the next one only when the counters     *)
(* could be read.                                                           *)
(*                                                                         *)
(* Counters run on while nobody looks, interfaces come, go and restart from  *)
(* zero, and are read some time after the collection began.  Sending and     *)
(* receiving are computed alike; one direction is modelled.                  *)
(***************************************************************************)
EXTENDS FailedReports

CONSTANTS
  Interfaces,  \* network interfaces of the machine
  Watched,     \* those configured, or all of them
  Modulus,     \* how many values a counter has: 2^64
  MaxBytes     \* bound: the bytes an interface sends

ASSUME RatesAssumption ==
  /\ Watched \subseteq Interfaces
  /\ Modulus \in Nat /\ MaxBytes \in 0..(Modulus - 1)

VARIABLES
  counters,   \* BytesSent of the interfaces there are
  begun,      \* now of a collection that has not read them yet, or Never
  last,       \* lastNetworkStats
  lastTime,   \* lastCollectTime, or Never while lastNetworkStats is nil
  speed,      \* UploadSpeed of the interfaces in the latest sample
  restarted,  \* history: watched interfaces that restarted since last read
  run         \* history: run[i], the readings of a watched i since it restarted

collector == <<begun, last, lastTime, speed>>
ratesVars == <<counters, collector, restarted, run>>
loopVars == <<vars, ratesVars>>

Never == -1

(* The counter and the time of the first reading, the time of the latest,    *)
(* and what the rates in between amount to, in bytes times Second.           *)
Run == [bytes : 0..MaxBytes, since : 0..MaxTime, seen : 0..MaxTime, reported : Nat]

LoopTypeOK ==
  /\ TypeOK
  /\ begun \in 0..MaxTime \cup {Never}
  /\ DOMAIN counters \subseteq Interfaces
  /\ counters \in [DOMAIN counters -> 0..MaxBytes]
  /\ DOMAIN last \subseteq Interfaces /\ last \in [DOMAIN last -> 0..MaxBytes]
  /\ lastTime \in 0..MaxTime \cup {Never}
  /\ DOMAIN speed \subseteq Watched
  /\ speed \in [DOMAIN speed -> 0..(Modulus - 1)]
  /\ restarted \subseteq Watched
  /\ run \in [Watched -> Run]

LoopInit ==
  /\ Init
  /\ counters = [i \in Interfaces |-> 0]
  /\ begun = Never /\ lastTime = Never
  /\ last = [i \in {} |-> 0] /\ speed = [i \in {} |-> 0]
  /\ restarted = {}
  /\ run = [i \in Watched |-> [bytes |-> 0, since |-> 0, seen |-> 0, reported |-> 0]]
-----------------------------------------------------------------------------
(* The machine.  Nobody looks at the traffic of interfaces not watched, nor  *)
(* at any after the agent was stopped.                                      *)
Send(i) ==
  /\ agent # "stopped" /\ i \in Watched
  /\ i \in DOMAIN counters /\ counters[i] < MaxBytes
  /\ counters' = [counters EXCEPT ![i] = @ + 1]
  /\ UNCHANGED <<vars, collector, restarted, run>>

(* An interface goes away, for a while or for good; it counts from zero when *)
(* it comes back.                                                           *)
Leave(i) ==
  /\ agent # "stopped" /\ i \in DOMAIN counters
  /\ counters' = [j \in DOMAIN counters \ {i} |-> counters[j]]
  /\ restarted' = restarted \cup ({i} \cap Watched)
  /\ UNCHANGED <<vars, collector, run>>

Appear(i) ==
  /\ agent # "stopped" /\ i \in Interfaces \ DOMAIN counters
  /\ counters' = [j \in DOMAIN counters \cup {i} |->
                    IF j = i THEN 0 ELSE counters[j]]
  /\ UNCHANGED <<vars, collector, restarted, run>>
-----------------------------------------------------------------------------
(* now := time.Now(), and a sample without interfaces.                       *)
BeginCollect ==
  /\ Collect
  /\ begun' = clock
  /\ speed' = [i \in {} |-> 0]
  /\ UNCHANGED <<counters, last, lastTime, restarted, run>>

(* A plausible slip: a quotient that does not fit is taken as it is.         *)
RatesUnchecked(cur, prev, timeDiff) ==
  {(Second * ((cur - prev) % Modulus)) \div timeDiff}

(* uint64(float64(cur - prev) / timeDiff).  What a quotient that does not    *)
(* fit becomes depends on the processor.                                     *)
Rates(cur, prev, timeDiff) ==
  LET rate == (Second * ((cur - prev) % Modulus)) \div timeDiff
  IN  IF rate < Modulus THEN {rate} ELSE {Modulus \div 2, Modulus - 1}

(* The speeds of a sample: zero for an interface the last reading lacks.     *)
Speeds(sampled) ==
  {s \in [sampled -> 0..(Second * Modulus)] :
     \A i \in sampled :
       s[i] \in IF i \in DOMAIN last
                  THEN Rates(counters[i], last[i], begun - lastTime) ELSE {0}}

(* The history of interface i once it was read with speed s.                 *)
Seen(i, s) ==
  IF i \in DOMAIN last /\ i \notin restarted
    THEN [run[i] EXCEPT !.seen = begun,
                        !.reported = @ + s * (begun - run[i].seen)]
    ELSE [bytes |-> counters[i], since |-> begun, seen |-> begun, reported |-> 0]

(* Go's clock for differences is monotonic: timeDiff > 0, which the code     *)
(* asks for, holds between two collections.                                  *)
ReadCounters ==
  /\ agent = "collecting" /\ begun # Never
  /\ DOMAIN counters # {} /\ begun > lastTime
  /\ \E s \in Speeds(DOMAIN counters \cap Watched) :
       /\ speed' = s
       /\ run' = [i \in Watched |->
                    IF i \in DOMAIN s THEN Seen(i, s[i]) ELSE run[i]]
  /\ last' = counters /\ lastTime' = begun
  /\ begun' = Never
  /\ restarted' = restarted \ DOMAIN counters
  /\ UNCHANGED <<vars, counters>>

(* A plausible slip: the time is kept although nothing could be read.        *)
ReadFailsLate ==
  /\ agent = "collecting" /\ begun # Never /\ lastTime # Never
  /\ lastTime' = begun /\ begun' = Never
  /\ UNCHANGED <<vars, counters, last, speed, restarted, run>>

(* IOCounters fails or lists nothing: the sample has no interface, and what  *)
(* is kept for the next one stays.                                          *)
ReadFails ==
  /\ agent = "collecting" /\ begun # Never
  /\ begun' = Never
  /\ UNCHANGED <<vars, counters, last, lastTime, speed, restarted, run>>

(* Collect returns when the counters' goroutine is done, too.                *)
ReportSample == (Report \/ PrepareFails) /\ begun = Never /\ UNCHANGED ratesVars

LoopNext ==
  \/ \E i \in Interfaces : Send(i) \/ Leave(i) \/ Appear(i)
  \/ BeginCollect \/ ReadCounters \/ ReadFails \/ ReportSample
  \/ /\ Tick \/ Accepted \/ AttemptFails \/ Resume
        \/ SaveFails \/ OpenFile \/ WriteFile \/ Quit
     /\ UNCHANGED ratesVars

LoopSpec == LoopInit /\ [][LoopNext]_loopVars
-----------------------------------------------------------------------------
(* Over any number of readings, failed ones in between included, the speeds  *)
(* of an interface that did not restart amount to what it sent: never more,  *)
(* and less by no more than rounding takes.                                  *)
SpeedsAddUp ==
  \A i \in (DOMAIN last \cap Watched) \ restarted :
    LET sent == Second * (last[i] - run[i].bytes)
    IN  /\ run[i].reported <= sent
        /\ sent - run[i].reported <= run[i].seen - run[i].since
=============================================================================
