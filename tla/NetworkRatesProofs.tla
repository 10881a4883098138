--------------------------- MODULE NetworkRatesProofs ---------------------------
(***************************************************************************)
(* Proofs about the agent's loop: the files of failed reports, for any       *)
(* interval and number of retries, where what keeps a file apart is a retry, *)
(* whose pause is no shorter than the second that names it; then the network *)
(* rates of the samples, for any interfaces, traffic and times.              *)
(***************************************************************************)
EXTENDS NetworkRates, TLAPS

LEMMA Quotient ==
  ASSUME NEW a \in Nat, NEW b \in Nat \ {0}
  PROVE  a \div b \in 0..a
<1>1. a \div b \in Nat /\ b * (a \div b) <= a
  BY SMTT(30)
<1>2. b * (a \div b) >= a \div b
  BY <1>1, SMTT(30)
<1> QED
  BY <1>1, <1>2

LEMMA LaterSecond ==
  ASSUME NEW a \in Nat, NEW b \in Nat, NEW c \in Nat \ {0}, a <= b
  PROVE  a \div c <= b \div c
BY SMTT(60)

LEMMA NextSecond ==
  ASSUME NEW a \in Nat, NEW b \in Nat, NEW c \in Nat \ {0}, a + c <= b
  PROVE  a \div c < b \div c
BY SMTT(60)
-----------------------------------------------------------------------------
(* A collection that is under way has a number.                              *)
Numbered == TypeOK /\ (agent \notin {"idle", "stopped"} => sample >= 1)

LEMMA NumberedInit == Init => Numbered
<1> SUFFICES ASSUME Init PROVE Numbered
  OBVIOUS
<1>1. DOMAIN files = {} /\ files \in [DOMAIN files -> 0..sample]
  BY DEF Init
<1>2. 0 \in 0..MaxTime /\ 0 \in 0..(MaxTime + RetryInterval) /\ 0 \in 0..RetryCount
  BY ReportsAssumption
<1> QED
  BY <1>1, <1>2 DEF Init, TypeOK, Numbered

LEMMA NumberedStep == Numbered /\ [Next]_vars => Numbered'
<1> SUFFICES ASSUME Numbered, [Next]_vars PROVE Numbered'
  OBVIOUS
<1> USE ReportsAssumption DEF Numbered, TypeOK, disk
<1>1. CASE Tick
  BY <1>1 DEF Tick
<1>2. CASE Collect
  <2>1. clock \div Second \in 0..MaxTime
    BY Quotient
  <2>2. sample + 1 \in Nat /\ sample + 1 >= 1 /\ 1..sample \subseteq 1..(sample + 1)
    OBVIOUS
  <2>3. files \in [DOMAIN files -> 0..(sample + 1)]
    OBVIOUS
  <2> QED
    BY <1>2, <2>1, <2>2, <2>3 DEF Collect
<1>3. CASE Report \/ PrepareFails \/ Accepted \/ Resume \/ SaveFails \/ Quit
  BY <1>3 DEF Report, PrepareFails, Accepted, Resume, SaveFails, Quit
<1>4. CASE AttemptFails
  BY <1>4 DEF AttemptFails
<1>5. CASE OpenFile
  <2>1. /\ DOMAIN files' = DOMAIN files \cup {collectTime}
        /\ files' \in [DOMAIN files' -> 0..sample]
    BY <1>5 DEF OpenFile, Partial
  <2> QED
    BY <1>5, <2>1 DEF OpenFile
<1>6. CASE WriteFile
  <2>1. DOMAIN files' = DOMAIN files /\ sample \in 0..sample
    BY <1>6 DEF WriteFile
  <2>2. files' \in [DOMAIN files' -> 0..sample]
    BY <1>6, <2>1 DEF WriteFile
  <2>3. retried \cup {sample} \subseteq 1..sample
    BY <1>6 DEF WriteFile
  <2> QED
    BY <1>6, <2>1, <2>2, <2>3 DEF WriteFile
<1>7. CASE UNCHANGED vars
  BY <1>7 DEF vars
<1> QED
  BY <1>1, <1>2, <1>3, <1>4, <1>5, <1>6, <1>7 DEF Next

(* The agent is at one collection, and each file holds one sample or nothing. *)
THEOREM ReportsTypes == Spec => []TypeOK
BY NumberedInit, NumberedStep, PTL DEF Spec, Numbered
-----------------------------------------------------------------------------
(* The time now is Now seconds.                                              *)
Now == clock \div Second

(* A file of a retried sample is of a second that is over, and before the    *)
(* one a collection under way began in.                                      *)
Behind(s) ==
  /\ s < Now
  /\ agent \notin {"idle", "stopped"} => s < collectTime

(* Each retried sample is in such a file, and when a report fails after a    *)
(* retry the second its collection began in is over.                         *)
RetriedBehind ==
  /\ collectTime <= Now
  /\ \A n \in retried : \E s \in DOMAIN files : files[s] = n /\ Behind(s)
  /\ agent = "pausing" => collectTime < wake \div Second
  /\ agent \in {"sending", "saving", "writing"} /\ attempt >= 1 => collectTime < Now
  /\ agent = "writing" => collectTime \in DOMAIN files

FilesInv == Numbered /\ RetriedBehind

LEMMA FilesInvInit == Init => FilesInv
<1> SUFFICES ASSUME Init PROVE FilesInv
  OBVIOUS
<1>1. Now \in Nat
  BY Quotient, ReportsAssumption DEF Init, Now
<1> QED
  BY <1>1, NumberedInit DEF Init, FilesInv, RetriedBehind

(* As long as no file changes, no second is taken back and no collection     *)
(* begins, the retried samples stay where they are.                          *)
LEMMA FilesStay ==
  ASSUME RetriedBehind, Now \in Nat, Now' \in Nat, Now <= Now',
         \A s \in DOMAIN files : s \in Nat,
         UNCHANGED disk, collectTime' = collectTime,
         agent' \notin {"idle", "stopped"} => agent \notin {"idle", "stopped"}
  PROVE  \A n \in retried' : \E s \in DOMAIN files' : files'[s] = n /\ Behind(s)'
<1> SUFFICES ASSUME NEW n \in retried
             PROVE  \E s \in DOMAIN files : files[s] = n /\ Behind(s)'
  BY DEF disk
<1>1. PICK s \in DOMAIN files : files[s] = n /\ Behind(s)
  BY DEF RetriedBehind
<1> QED
  BY <1>1 DEF Behind

LEMMA FilesInvStep == FilesInv /\ [Next]_vars => FilesInv'
<1> SUFFICES ASSUME FilesInv, [Next]_vars PROVE RetriedBehind'
  BY NumberedStep DEF FilesInv
<1> USE ReportsAssumption DEF FilesInv
<1>1. /\ clock \in Nat /\ wake \in Nat /\ collectTime \in Nat /\ Now \in Nat
      /\ clock' \in Nat /\ wake' \in Nat /\ collectTime' \in Nat /\ Now' \in Nat
      /\ \A s \in DOMAIN files : s \in Nat
      /\ attempt \in Nat
  <2>1. TypeOK /\ TypeOK'
    BY NumberedStep DEF Numbered
  <2> QED
    BY <2>1, Quotient DEF TypeOK, Now
<1>2. CASE Tick
  <2>1. Now <= Now'
    BY <1>1, <1>2, LaterSecond DEF Tick, Now
  <2>2. UNCHANGED <<agent, collectTime, attempt, wake>> /\ UNCHANGED disk
    BY <1>2 DEF Tick, disk
  <2>3. \A n \in retried' : \E s \in DOMAIN files' : files'[s] = n /\ Behind(s)'
    BY <1>1, <2>1, <2>2, FilesStay
  <2>4. files' = files
    BY <2>2 DEF disk
  <2> QED
    BY <1>1, <2>1, <2>2, <2>3, <2>4 DEF RetriedBehind
<1>3. CASE Collect
  <2>1. /\ collectTime' = Now /\ Now' = Now /\ agent = "idle"
        /\ agent' = "collecting" /\ UNCHANGED disk
    BY <1>3 DEF Collect, Now
  <2>2. \A s : Behind(s) => Behind(s)'
    BY <2>1 DEF Behind
  <2>3. \A n \in retried' : \E s \in DOMAIN files' : files'[s] = n /\ Behind(s)'
    BY <2>1, <2>2 DEF RetriedBehind, disk
  <2> QED
    BY <1>1, <2>1, <2>3 DEF RetriedBehind
<1>4. CASE Report \/ PrepareFails \/ Accepted \/ SaveFails \/ Quit
  <2>1. /\ Now' = Now /\ UNCHANGED <<collectTime, wake>> /\ UNCHANGED disk
        /\ agent' \in {"sending", "saving", "idle", "stopped"}
        /\ agent' \in {"sending", "saving"} => agent = "collecting" /\ attempt' = 0
    BY <1>4 DEF Report, PrepareFails, Accepted, SaveFails, Quit, Now
  <2> QED
    BY <1>1, <2>1, FilesStay DEF RetriedBehind
<1>5. CASE AttemptFails
  <2>1. /\ Now' = Now /\ agent = "sending" /\ UNCHANGED collectTime /\ UNCHANGED disk
        /\ agent' \in {"pausing", "saving"}
    BY <1>5 DEF AttemptFails, Now
  <2>2. \A n \in retried' : \E s \in DOMAIN files' : files'[s] = n /\ Behind(s)'
    BY <1>1, <2>1, FilesStay
  <2>3. CASE attempt < RetryCount
    <3>1. wake' = clock + RetryInterval /\ agent' = "pausing"
      BY <1>5, <2>3 DEF AttemptFails
    <3>2. Now < wake' \div Second
      BY <1>1, <3>1, NextSecond DEF Now
    <3>3. wake' \div Second \in Nat
      <4>1. \A a \in Nat, b \in Nat \ {0} : a \div b \in Nat
        BY Quotient
      <4>2. wake' \in Nat /\ Second \in Nat \ {0}
        BY <1>1
      <4> QED
        BY <4>1, <4>2, Zenon
    <3> QED
      BY <1>1, <2>1, <2>2, <3>1, <3>2, <3>3 DEF RetriedBehind
  <2>4. CASE ~(attempt < RetryCount)
    <3>1. agent' = "saving" /\ attempt' = attempt
      BY <1>5, <2>4 DEF AttemptFails
    <3> QED
      BY <1>1, <2>1, <2>2, <3>1 DEF RetriedBehind
  <2> QED
    BY <2>3, <2>4
<1>6. CASE Resume
  <2>1. Now' = Now /\ wake \div Second <= Now /\ wake \div Second \in Nat
    BY <1>1, <1>6, LaterSecond, Quotient DEF Resume, Now
  <2>2. \A n \in retried' : \E s \in DOMAIN files' : files'[s] = n /\ Behind(s)'
    BY <1>1, <1>6, <2>1, FilesStay DEF Resume
  <2> QED
    BY <1>1, <1>6, <2>1, <2>2 DEF Resume, RetriedBehind
<1>7. CASE OpenFile
  <2>1. /\ Now' = Now /\ collectTime' = collectTime
        /\ agent = "saving" /\ agent' = "writing"
        /\ retried' = retried /\ attempt' = attempt
        /\ DOMAIN files' = DOMAIN files \cup {collectTime}
        /\ \A s \in DOMAIN files : s # collectTime => files'[s] = files[s]
    BY <1>7 DEF OpenFile, Now
  <2>2. ASSUME NEW n \in retried
        PROVE  \E s \in DOMAIN files' : files'[s] = n /\ Behind(s)'
    <3>1. PICK s \in DOMAIN files : files[s] = n /\ Behind(s)
      BY DEF RetriedBehind
    <3>2. s # collectTime
      BY <1>1, <2>1, <3>1 DEF Behind
    <3>3. Behind(s)'
      BY <2>1, <3>1 DEF Behind
    <3> QED
      BY <2>1, <3>1, <3>2, <3>3
  <2> QED
    BY <1>1, <2>1, <2>2 DEF RetriedBehind
<1>8. CASE WriteFile
  <2>1. /\ Now' = Now /\ collectTime' = collectTime
        /\ agent = "writing" /\ agent' = "idle" /\ attempt' = attempt
        /\ collectTime \in DOMAIN files /\ DOMAIN files' = DOMAIN files
        /\ \A s \in DOMAIN files : s # collectTime => files'[s] = files[s]
    BY <1>8 DEF WriteFile, RetriedBehind, Now, disk
  <2>2. ASSUME NEW n \in retried
        PROVE  \E s \in DOMAIN files' : files'[s] = n /\ Behind(s)'
    <3>1. PICK s \in DOMAIN files : files[s] = n /\ Behind(s)
      BY DEF RetriedBehind
    <3>2. s # collectTime
      BY <1>1, <2>1, <3>1 DEF Behind
    <3>3. Behind(s)'
      BY <2>1, <3>1 DEF Behind
    <3> QED
      BY <2>1, <3>1, <3>2, <3>3
  <2>3. CASE retried' = retried
    BY <1>1, <2>1, <2>2, <2>3 DEF RetriedBehind
  <2>4. CASE retried' # retried
    <3>1. /\ retried' = retried \cup {sample} /\ attempt > 0
          /\ files'[collectTime] = sample
      BY <1>8, <2>1, <2>4 DEF WriteFile, disk
    <3>2. Behind(collectTime)'
      BY <1>1, <2>1, <3>1 DEF RetriedBehind, Behind
    <3> QED
      BY <1>1, <2>1, <2>2, <3>1, <3>2 DEF RetriedBehind
  <2> QED
    BY <2>3, <2>4
<1>9. CASE UNCHANGED vars
  BY <1>9 DEF vars, RetriedBehind, Behind, Now
<1> QED
  BY <1>2, <1>3, <1>4, <1>5, <1>6, <1>7, <1>8, <1>9 DEF Next

(* A sample saved after a retry is never written over, however short the     *)
(* interval between collections and whichever reports before or after it     *)
(* fail at once: the pause has taken it into a later second than its own.    *)
THEOREM RetriedReportsStay == Spec => []RetriedSamplesStay
<1>1. FilesInv => RetriedSamplesStay
  BY DEF FilesInv, RetriedBehind, RetriedSamplesStay
<1> QED
  BY <1>1, FilesInvInit, FilesInvStep, PTL DEF Spec
-----------------------------------------------------------------------------
(* A step of the loop is one of the loop without rates, or leaves it alone.  *)
LEMMA LoopSteps == [LoopNext]_loopVars => [Next]_vars
BY DEF LoopNext, Send, Leave, Appear, BeginCollect, ReadCounters, ReadFails,
   ReportSample, Next, loopVars

(* Computing rates changes nothing about what is reported, retried or saved. *)
THEOREM ImplementsReports == LoopSpec => Spec
<1>1. LoopInit => Init
  BY DEF LoopInit
<1> QED
  BY <1>1, LoopSteps, PTL DEF LoopSpec, Spec

(* What the loop saves after a retry is not written over, either, however    *)
(* long its readings take.                                                  *)
THEOREM LoopKeepsRetried == LoopSpec => []RetriedSamplesStay
BY ImplementsReports, RetriedReportsStay, PTL
-----------------------------------------------------------------------------
(* No quotient of two readings, however close in time, leaves 64 bits: what  *)
(* an interface ever counts, sent in one unit of time, is a speed.           *)
SpeedsFit == Second * MaxBytes < Modulus

LEMMA Division ==
  ASSUME NEW a \in Nat, NEW b \in Nat \ {0}
  PROVE  /\ a \div b \in Nat
         /\ (a \div b) * b <= a /\ a - (a \div b) * b <= b
         /\ a \div b <= a
<1>1. a \div b \in Nat /\ b * (a \div b) <= a /\ a - b * (a \div b) <= b
  BY SMTT(30)
<1>2. b * (a \div b) = (a \div b) * b
  BY <1>1, SMTT(30)
<1> QED
  BY <1>1, <1>2, Quotient

LEMMA Product ==
  ASSUME NEW a \in Nat, NEW b \in Nat
  PROVE  a * b \in Nat
BY SMTT(30)

(* A speed is a 64-bit number, whatever was subtracted and whatever became   *)
(* of a quotient that does not fit.                                         *)
LEMMA RateTypes ==
  ASSUME NEW cur \in Nat, NEW prev \in Nat, NEW timeDiff \in Nat \ {0},
         NEW s \in Rates(cur, prev, timeDiff)
  PROVE  s \in 0..(Modulus - 1)
<1>1. Modulus \in Nat \ {0}
  BY RatesAssumption
<1>2. (cur - prev) % Modulus \in Nat
  BY <1>1, SMTT(30)
<1>3. Second * ((cur - prev) % Modulus) \in Nat
  BY <1>2, Product, ReportsAssumption
<1>4. (Second * ((cur - prev) % Modulus)) \div timeDiff \in Nat
  BY <1>3, Division
<1>5. Modulus \div 2 \in 0..(Modulus - 1)
  BY <1>1, SMTT(30)
<1> QED
  BY <1>1, <1>4, <1>5 DEF Rates

(* A counter that ran on gives a speed that times the time amounts to what   *)
(* was counted, up to one unit for each unit of time.                        *)
LEMMA RateOfRunningCounter ==
  ASSUME SpeedsFit, NEW cur \in 0..MaxBytes, NEW prev \in 0..MaxBytes, prev <= cur,
         NEW timeDiff \in Nat \ {0}, NEW s \in Rates(cur, prev, timeDiff)
  PROVE  /\ s * timeDiff <= Second * (cur - prev)
         /\ Second * (cur - prev) - s * timeDiff <= timeDiff
<1>1. /\ Modulus \in Nat \ {0} /\ MaxBytes \in Nat /\ MaxBytes < Modulus
      /\ Second \in Nat \ {0}
  BY RatesAssumption, ReportsAssumption
<1> PICK d : d = cur - prev
  OBVIOUS
<1>2. d \in Nat /\ d <= MaxBytes /\ (cur - prev) % Modulus = d
  BY <1>1, SMTT(30)
<1>3. Second * d \in Nat /\ Second * d <= Second * MaxBytes
  BY <1>1, <1>2, SMTT(30)
<1> PICK p : p = Second * d
  OBVIOUS
<1>4. p \in Nat /\ p < Modulus
  BY <1>1, <1>3, Product DEF SpeedsFit
<1>5. /\ p \div timeDiff \in Nat /\ p \div timeDiff <= p
      /\ (p \div timeDiff) * timeDiff <= p
      /\ p - (p \div timeDiff) * timeDiff <= timeDiff
  BY <1>4, Division
<1>6. s = p \div timeDiff
  BY <1>1, <1>2, <1>4, <1>5 DEF Rates
<1> QED
  BY <1>5, <1>6
-----------------------------------------------------------------------------
(* The latest reading of a watched interface was at lastTime, and the        *)
(* counter of one that did not restart has only run on since.                *)
ReadingsCurrent ==
  \A i \in DOMAIN last \cap Watched : run[i].seen = lastTime
CountersRunOn ==
  \A i \in (DOMAIN last \cap Watched) \ restarted :
    i \in DOMAIN counters /\ last[i] <= counters[i]

(* LoopTypeOK without the part of FailedReports.                             *)
RatesTypeOK ==
  /\ begun \in 0..MaxTime \cup {Never}
  /\ DOMAIN counters \subseteq Interfaces
  /\ counters \in [DOMAIN counters -> 0..MaxBytes]
  /\ DOMAIN last \subseteq Interfaces /\ last \in [DOMAIN last -> 0..MaxBytes]
  /\ lastTime \in 0..MaxTime \cup {Never}
  /\ DOMAIN speed \subseteq Watched
  /\ speed \in [DOMAIN speed -> 0..(Modulus - 1)]
  /\ restarted \subseteq Watched
  /\ run \in [Watched -> Run]

RatesInv == RatesTypeOK /\ ReadingsCurrent /\ CountersRunOn

LEMMA RatesInvInit == LoopInit => RatesInv /\ SpeedsAddUp
<1> SUFFICES ASSUME LoopInit PROVE RatesInv /\ SpeedsAddUp
  OBVIOUS
<1>1. DOMAIN last = {} /\ DOMAIN speed = {}
  BY DEF LoopInit
<1>2. 0 \in 0..MaxBytes /\ 0 \in 0..MaxTime
  BY ReportsAssumption, RatesAssumption
<1>3. run \in [Watched -> Run]
  BY <1>2 DEF LoopInit, Run
<1>4. RatesTypeOK
  BY <1>1, <1>2, <1>3 DEF LoopInit, RatesTypeOK
<1> QED
  BY <1>1, <1>4 DEF RatesInv, ReadingsCurrent, CountersRunOn, SpeedsAddUp

(* What ReadCounters makes of the history of one interface.                  *)
LEMMA SeenFacts ==
  ASSUME RatesInv, ReadCounters
  PROVE  /\ RatesTypeOK'
         /\ \A i \in DOMAIN counters \cap Watched : \E s \in 0..(Modulus - 1) :
              /\ run'[i] = Seen(i, s)
              /\ i \in DOMAIN last =>
                   s \in Rates(counters[i], last[i], begun - lastTime)
<1> USE DEF RatesInv
<1>1. /\ begun \in 0..MaxTime /\ begun > lastTime /\ begun - lastTime \in Nat \ {0}
      /\ last' = counters /\ lastTime' = begun /\ begun' = Never
      /\ restarted' = restarted \ DOMAIN counters /\ counters' = counters
  BY DEF ReadCounters, RatesTypeOK, Never
<1>2. PICK s \in Speeds(DOMAIN counters \cap Watched) :
        /\ speed' = s
        /\ run' = [i \in Watched |->
                     IF i \in DOMAIN s THEN Seen(i, s[i]) ELSE run[i]]
  BY DEF ReadCounters
<1>3. /\ DOMAIN s = DOMAIN counters \cap Watched
      /\ s \in [DOMAIN s -> 0..(Second * Modulus)]
      /\ \A i \in DOMAIN s :
           s[i] \in IF i \in DOMAIN last
                      THEN Rates(counters[i], last[i], begun - lastTime) ELSE {0}
  BY <1>2 DEF Speeds
<1>4. \A i \in DOMAIN s : s[i] \in 0..(Modulus - 1)
  <2> SUFFICES ASSUME NEW i \in DOMAIN s PROVE s[i] \in 0..(Modulus - 1)
    OBVIOUS
  <2>1. CASE i \in DOMAIN last
    <3>1. counters[i] \in Nat /\ last[i] \in Nat
      BY <1>3, <2>1, RatesAssumption DEF RatesTypeOK
    <3> QED
      BY <1>1, <1>3, <2>1, <3>1, RateTypes
  <2>2. CASE i \notin DOMAIN last
    BY <1>3, <2>2, RatesAssumption
  <2> QED
    BY <2>1, <2>2
<1>5. \A i \in DOMAIN s : Seen(i, s[i]) \in Run
  <2> SUFFICES ASSUME NEW i \in DOMAIN s PROVE Seen(i, s[i]) \in Run
    OBVIOUS
  <2>1. i \in Watched /\ i \in DOMAIN counters /\ s[i] \in Nat /\ run[i] \in Run
    BY <1>3, <1>4, RatesAssumption DEF RatesTypeOK
  <2>2. CASE i \in DOMAIN last /\ i \notin restarted
    <3>1. begun - run[i].seen \in Nat
      BY <1>1, <2>1, <2>2 DEF ReadingsCurrent
    <3>2. s[i] * (begun - run[i].seen) \in Nat
      BY <2>1, <3>1, Product
    <3>3. run[i].reported + s[i] * (begun - run[i].seen) \in Nat
      BY <2>1, <3>2 DEF Run
    <3> QED
      BY <1>1, <2>1, <2>2, <3>3 DEF Seen, Run
  <2>3. CASE ~(i \in DOMAIN last /\ i \notin restarted)
    BY <1>1, <2>1, <2>3 DEF Seen, Run, RatesTypeOK
  <2> QED
    BY <2>2, <2>3
<1>6. run' \in [Watched -> Run]
  BY <1>2, <1>5 DEF RatesTypeOK
<1>7. RatesTypeOK'
  <2>1. DOMAIN speed' \subseteq Watched /\ speed' \in [DOMAIN speed' -> 0..(Modulus - 1)]
    BY <1>2, <1>3, <1>4
  <2> QED
    BY <1>1, <1>6, <2>1 DEF RatesTypeOK
<1>8. ASSUME NEW i \in DOMAIN counters \cap Watched
      PROVE  \E v \in 0..(Modulus - 1) :
               /\ run'[i] = Seen(i, v)
               /\ i \in DOMAIN last =>
                    v \in Rates(counters[i], last[i], begun - lastTime)
  <2>1. i \in DOMAIN s /\ s[i] \in 0..(Modulus - 1)
    BY <1>3, <1>4
  <2>2. run'[i] = Seen(i, s[i])
    BY <1>2, <2>1
  <2>3. i \in DOMAIN last => s[i] \in Rates(counters[i], last[i], begun - lastTime)
    BY <1>3, <2>1
  <2> QED
    BY <2>1, <2>2, <2>3
<1> QED
  BY <1>7, <1>8

(* RatesInv is inductive; of the steps of the loop only readings, and what   *)
(* the machine does, touch what it is about.                                *)
LEMMA RatesInvStep == TypeOK /\ RatesInv /\ [LoopNext]_loopVars => RatesInv'
<1> SUFFICES ASSUME TypeOK, RatesInv, [LoopNext]_loopVars PROVE RatesInv'
  OBVIOUS
<1> USE DEF RatesInv
<1>1. ASSUME UNCHANGED ratesVars PROVE RatesInv'
  BY <1>1 DEF ratesVars, collector, RatesTypeOK, ReadingsCurrent, CountersRunOn
<1>2. ASSUME NEW i \in Interfaces, Send(i) PROVE RatesInv'
  <2>1. /\ i \in DOMAIN counters /\ counters[i] < MaxBytes
        /\ counters' = [counters EXCEPT ![i] = @ + 1]
        /\ UNCHANGED <<begun, last, lastTime, speed, restarted, run>>
    BY <1>2 DEF Send, collector
  <2>2. counters[i] \in 0..MaxBytes /\ counters[i] + 1 \in 0..MaxBytes
    BY <2>1, RatesAssumption DEF RatesTypeOK
  <2>3. /\ DOMAIN counters' = DOMAIN counters
        /\ counters' \in [DOMAIN counters -> 0..MaxBytes]
        /\ \A j \in DOMAIN counters : counters[j] <= counters'[j]
    BY <2>1, <2>2, RatesAssumption DEF RatesTypeOK
  <2>4. RatesTypeOK'
    BY <2>1, <2>3 DEF RatesTypeOK
  <2>5. CountersRunOn'
    <3> SUFFICES ASSUME NEW j \in (DOMAIN last \cap Watched) \ restarted
                 PROVE  j \in DOMAIN counters' /\ last[j] <= counters'[j]
      BY <2>1 DEF CountersRunOn
    <3>1. j \in DOMAIN counters /\ last[j] <= counters[j]
      BY DEF CountersRunOn
    <3>2. last[j] \in Int /\ counters[j] \in Int /\ counters'[j] \in Int
      BY <2>3, <3>1, RatesAssumption DEF RatesTypeOK
    <3> QED
      BY <2>3, <3>1, <3>2
  <2> QED
    BY <2>1, <2>4, <2>5 DEF ReadingsCurrent
<1>3. ASSUME NEW i \in Interfaces, Leave(i) PROVE RatesInv'
  <2>1. /\ counters' = [j \in DOMAIN counters \ {i} |-> counters[j]]
        /\ restarted' = restarted \cup ({i} \cap Watched)
        /\ UNCHANGED <<begun, last, lastTime, speed, run>>
    BY <1>3 DEF Leave, collector
  <2>2. RatesTypeOK'
    BY <2>1 DEF RatesTypeOK
  <2>3. CountersRunOn'
    BY <2>1 DEF CountersRunOn
  <2> QED
    BY <2>1, <2>2, <2>3 DEF ReadingsCurrent
<1>4. ASSUME NEW i \in Interfaces, Appear(i) PROVE RatesInv'
  <2>1. /\ i \notin DOMAIN counters
        /\ counters' = [j \in DOMAIN counters \cup {i} |->
                          IF j = i THEN 0 ELSE counters[j]]
        /\ UNCHANGED <<begun, last, lastTime, speed, restarted, run>>
    BY <1>4 DEF Appear, collector
  <2>2. RatesTypeOK'
    <3>1. 0 \in 0..MaxBytes
      BY RatesAssumption
    <3> QED
      BY <2>1, <3>1 DEF RatesTypeOK
  <2>3. CountersRunOn'
    BY <2>1 DEF CountersRunOn
  <2> QED
    BY <2>1, <2>2, <2>3 DEF ReadingsCurrent
<1>5. CASE BeginCollect
  <2>1. /\ begun' = clock /\ speed' = [i \in {} |-> 0]
        /\ UNCHANGED <<counters, last, lastTime, restarted, run>>
    BY <1>5 DEF BeginCollect
  <2>2. RatesTypeOK'
    BY <2>1 DEF RatesTypeOK, TypeOK
  <2> QED
    BY <2>1, <2>2 DEF ReadingsCurrent, CountersRunOn
<1>6. CASE ReadCounters
  <2>1. /\ RatesTypeOK' /\ counters' = counters /\ last' = counters
        /\ lastTime' = begun
        /\ \A i \in DOMAIN counters \cap Watched :
             \E s \in 0..(Modulus - 1) : run'[i] = Seen(i, s)
    BY <1>6, SeenFacts DEF ReadCounters
  <2>2. ASSUME NEW i \in DOMAIN counters \cap Watched PROVE run'[i].seen = begun
    <3>1. PICK s \in 0..(Modulus - 1) : run'[i] = Seen(i, s)
      BY <2>1
    <3>2. run[i] \in Run
      BY DEF RatesTypeOK
    <3> QED
      BY <3>1, <3>2 DEF Seen, Run
  <2>3. CountersRunOn'
    <3>1. \A i \in DOMAIN counters : counters[i] <= counters[i]
      BY RatesAssumption DEF RatesTypeOK
    <3> QED
      BY <2>1, <3>1 DEF CountersRunOn
  <2> QED
    BY <2>1, <2>2, <2>3 DEF ReadingsCurrent
<1>7. CASE ReadFails
  BY <1>7 DEF ReadFails, RatesTypeOK, ReadingsCurrent, CountersRunOn
<1> QED
  BY <1>1, <1>2, <1>3, <1>4, <1>5, <1>6, <1>7 DEF LoopNext, ReportSample, loopVars

(* An interface that is read once more: what its speed amounts to since the  *)
(* reading before is what it sent since, but for the rounding.               *)
LEMMA OneMoreReading ==
  ASSUME SpeedsFit, RatesInv, SpeedsAddUp, ReadCounters,
         NEW i \in DOMAIN counters \cap Watched
  PROVE  LET sent == Second * (counters[i] - run'[i].bytes)
         IN  /\ run'[i].reported <= sent
             /\ sent - run'[i].reported <= run'[i].seen - run'[i].since
<1> USE DEF RatesInv
<1>1. PICK s \in 0..(Modulus - 1) :
        /\ run'[i] = Seen(i, s)
        /\ i \in DOMAIN last => s \in Rates(counters[i], last[i], begun - lastTime)
  BY SeenFacts
<1>2. /\ counters[i] \in 0..MaxBytes /\ begun \in 0..MaxTime
      /\ run[i] \in Run /\ Second \in Nat \ {0} /\ MaxBytes \in Nat /\ MaxTime \in Nat
  BY ReportsAssumption, RatesAssumption DEF ReadCounters, RatesTypeOK
<1>3. CASE ~(i \in DOMAIN last /\ i \notin restarted)
  <2>1. /\ run'[i].bytes = counters[i] /\ run'[i].since = begun
        /\ run'[i].seen = begun /\ run'[i].reported = 0
    BY <1>1, <1>3 DEF Seen
  <2>2. Second * (counters[i] - run'[i].bytes) = 0
    BY <1>2, <2>1
  <2> QED
    BY <1>2, <2>1, <2>2
<1>4. CASE i \in DOMAIN last /\ i \notin restarted
  <2>1. /\ last[i] \in 0..MaxBytes /\ last[i] <= counters[i]
        /\ run[i].seen = lastTime
    BY <1>4 DEF RatesTypeOK, CountersRunOn, ReadingsCurrent
  <2> PICK t : t = begun - lastTime
    OBVIOUS
  <2>2. t \in Nat \ {0} /\ lastTime \in 0..MaxTime
    BY <1>2, <2>1 DEF ReadCounters, Run
  <2>3. /\ s * t <= Second * (counters[i] - last[i])
        /\ Second * (counters[i] - last[i]) - s * t <= t
    BY <1>1, <1>2, <1>4, <2>1, <2>2, RateOfRunningCounter
  <2>4. /\ run'[i].bytes = run[i].bytes /\ run'[i].since = run[i].since
        /\ run'[i].seen = begun
        /\ run'[i].reported = run[i].reported + s * t
    BY <1>1, <1>2, <1>4, <2>1 DEF Seen, Run
  <2>5. /\ run[i].reported <= Second * (last[i] - run[i].bytes)
        /\ Second * (last[i] - run[i].bytes) - run[i].reported
             <= run[i].seen - run[i].since
    BY <1>4 DEF SpeedsAddUp
  <2>6. s * t \in Nat
    BY <2>2, RatesAssumption, Product
  <2>7. /\ run[i].bytes \in Nat /\ run[i].since \in Nat /\ run[i].reported \in Nat
        /\ last[i] \in Nat /\ counters[i] \in Nat
    BY <1>2, <2>1 DEF Run
  <2>8. Second * (counters[i] - run[i].bytes)
          = Second * (last[i] - run[i].bytes) + Second * (counters[i] - last[i])
    BY <1>2, <2>7, SMTT(30)
  <2>9. /\ Second * (last[i] - run[i].bytes) \in Int
        /\ Second * (counters[i] - last[i]) \in Int
    BY <1>2, <2>7, SMTT(30)
  <2> QED
    BY <1>2, <2>1, <2>2, <2>3, <2>4, <2>5, <2>6, <2>7, <2>8, <2>9
<1> QED
  BY <1>3, <1>4

LEMMA SpeedsStep ==
  ASSUME SpeedsFit
  PROVE  RatesInv /\ SpeedsAddUp /\ [LoopNext]_loopVars => SpeedsAddUp'
<1> SUFFICES ASSUME RatesInv, SpeedsAddUp, [LoopNext]_loopVars PROVE SpeedsAddUp'
  OBVIOUS
<1>1. CASE ReadCounters
  <2>1. last' = counters /\ counters' = counters
    BY <1>1 DEF ReadCounters
  <2> QED
    BY <1>1, <2>1, OneMoreReading DEF SpeedsAddUp
<1>2. CASE UNCHANGED <<last, run>> /\ restarted \subseteq restarted'
  BY <1>2 DEF SpeedsAddUp
<1> QED
  BY <1>1, <1>2
  DEF LoopNext, Send, Leave, Appear, BeginCollect, ReadFails, ReportSample,
      ratesVars, collector, loopVars

LEMMA RatesInvariant == LoopSpec => []RatesInv
BY RatesInvInit, RatesInvStep, ImplementsReports, ReportsTypes, PTL DEF LoopSpec

(* All variables of the loop keep their types: whatever is subtracted and    *)
(* divided, a speed is a 64-bit number.                                     *)
THEOREM LoopTypes == LoopSpec => []LoopTypeOK
<1>1. TypeOK /\ RatesInv => LoopTypeOK
  BY DEF RatesInv, RatesTypeOK, LoopTypeOK
<1> QED
  BY <1>1, RatesInvariant, ImplementsReports, ReportsTypes, PTL

(* Over any number of readings, some of them failed, and whichever           *)
(* interfaces come, go and restart meanwhile, the speeds of one amount to    *)
(* what it sent since it came, but for one byte in each second.              *)
THEOREM SpeedsAlwaysAddUp == ASSUME SpeedsFit PROVE LoopSpec => []SpeedsAddUp
<1>1. LoopInit => SpeedsAddUp
  BY RatesInvInit
<1>2. RatesInv /\ SpeedsAddUp /\ [LoopNext]_loopVars => SpeedsAddUp'
  BY SpeedsStep
<1> QED
  BY <1>1, <1>2, RatesInvariant, PTL DEF LoopSpec
=============================================================================
