--------------------------- MODULE ParallelCollector ---------------------------
(***************************************************************************)
(* One collection of the agent after the other (collector/parallel.go).      *)
(* Collect starts four goroutines on one stats value and waits for them; the *)
(* disk goroutine starts one more per mount point and the network goroutine  *)
(* three, and wait for theirs.  Only then are the hardware totals computed   *)
(* from what the parts found and the value handed out.  A part that fails    *)
(* leaves its fields as they were.                                          *)
(*                                                                         *)
(* NetworkRates models what the counters goroutine computes.                 *)
(***************************************************************************)
EXTENDS Integers, Functions

CONSTANTS
  Mounts,  \* mount points
  Root,    \* "/", the one used when none is configured
  Sizes    \* bytes of a disk or of the memory

Tasks == {"cpu", "memory", "disk", "network"}
NetworkTasks == {"interfaces", "addresses", "connections"}
Goroutine == Tasks \cup NetworkTasks \cup Mounts

ASSUME CollectorAssumption ==
  /\ Root \in Mounts /\ Mounts \cap (Tasks \cup NetworkTasks) = {}
  /\ Sizes \subseteq Nat \ {0}

VARIABLES
  phase,        \* where Collect is
  mountPoints,  \* pc.mountPoints
  running,      \* the goroutines there are
  counted,      \* those the wait groups wg, diskWg and netWg wait for
  waiting,      \* those of disk and network that wait for their own
  stats         \* the value they all fill in

vars == <<phase, mountPoints, running, counted, waiting, stats>>

(* What SystemStats holds of each part: of the CPU whether all its readings  *)
(* succeeded, of the network which of its parts did.                         *)
Empty == [cpu |-> FALSE, memory |-> 0, disk |-> [m \in {} |-> 0],
          network |-> {}, memoryTotal |-> 0, diskTotal |-> 0]

TypeOK ==
  /\ phase \in {"idle", "collecting", "returned"}
  /\ mountPoints \subseteq Mounts
  /\ running \subseteq Goroutine /\ counted \subseteq Goroutine
  /\ waiting \subseteq {"disk", "network"}
  /\ stats.cpu \in BOOLEAN /\ stats.network \subseteq NetworkTasks
  /\ stats.memory \in Sizes \cup {0} /\ stats.memoryTotal \in Sizes \cup {0}
  /\ DOMAIN stats.disk \subseteq Mounts
  /\ \A m \in DOMAIN stats.disk : stats.disk[m] \in Sizes

Init ==
  /\ phase = "idle" /\ mountPoints \in SUBSET Mounts
  /\ running = {} /\ counted = {} /\ waiting = {}
  /\ stats = Empty
-----------------------------------------------------------------------------
(* wg.Add for each of gs, and go.                                           *)
Begin(gs) == running' = running \cup gs /\ counted' = counted \cup gs

(* The end of goroutine g, and its wg.Done.                                  *)
End(g) == running' = running \ {g} /\ counted' = counted \ {g}

(* Collect: the next one of the agent's loop begins after the last returned. *)
Collect ==
  /\ phase # "collecting"
  /\ phase' = "collecting"
  /\ Begin(Tasks)
  /\ stats' = Empty
  /\ UNCHANGED <<mountPoints, waiting>>

(* Goroutine g ends, having filled in its part.                              *)
Ends(g, filled) ==
  /\ g \in running
  /\ End(g)
  /\ stats' = filled
  /\ UNCHANGED <<phase, mountPoints, waiting>>

(* collectCPUInfo: three readings, each of which may fail.                   *)
CollectCPU ==
  \E found \in BOOLEAN : Ends("cpu", [stats EXCEPT !.cpu = found])

(* collectMemoryInfo: the total stays zero when it cannot be read.           *)
CollectMemory ==
  \E size \in Sizes \cup {0} : Ends("memory", [stats EXCEPT !.memory = size])

(* collectDiskInfo: one goroutine per mount point, for "/" if there is none. *)
CollectDisk ==
  /\ "disk" \in running \ waiting
  /\ mountPoints' = IF mountPoints = {} THEN {Root} ELSE mountPoints
  /\ Begin(mountPoints')
  /\ waiting' = waiting \cup {"disk"}
  /\ UNCHANGED <<phase, stats>>

AddDisk(m, size) ==
  [stats EXCEPT !.disk = [d \in DOMAIN stats.disk \cup {m} |->
                            IF d = m THEN size ELSE stats.disk[d]]]

(* A plausible slip: wg.Done at the end of the goroutine, not deferred, so    *)
(* that the return of one that failed passes it by.                          *)
CollectMountUndone(m) ==
  /\ m \in mountPoints \cap running
  /\ \/ \E size \in Sizes : Ends(m, AddDisk(m, size))
     \/ /\ running' = running \ {m}
        /\ UNCHANGED <<phase, mountPoints, counted, waiting, stats>>

(* disk.Usage of one mount point, which may fail.                            *)
CollectMount(m) ==
  /\ m \in mountPoints
  /\ \/ \E size \in Sizes : Ends(m, AddDisk(m, size))
     \/ Ends(m, stats)

(* A plausible slip: no diskWg.Wait().                                      *)
DiskDoneAtOnce ==
  /\ "disk" \in waiting
  /\ waiting' = waiting \ {"disk"}
  /\ End("disk")
  /\ UNCHANGED <<phase, mountPoints, stats>>

(* diskWg.Wait() and the return.                                            *)
DiskDone ==
  /\ "disk" \in waiting /\ counted \cap Mounts = {}
  /\ waiting' = waiting \ {"disk"}
  /\ End("disk")
  /\ UNCHANGED <<phase, mountPoints, stats>>

(* collectNetworkInfo and its three goroutines.                              *)
CollectNetwork ==
  /\ "network" \in running \ waiting
  /\ Begin(NetworkTasks)
  /\ waiting' = waiting \cup {"network"}
  /\ UNCHANGED <<phase, mountPoints, stats>>

CollectInterfaces ==
  \/ Ends("interfaces", [stats EXCEPT !.network = @ \cup {"interfaces"}])
  \/ Ends("interfaces", stats)

CollectAddresses ==
  \/ Ends("addresses", [stats EXCEPT !.network = @ \cup {"addresses"}])
  \/ Ends("addresses", stats)

CollectConnections ==
  \/ Ends("connections", [stats EXCEPT !.network = @ \cup {"connections"}])
  \/ Ends("connections", stats)

(* netWg.Wait() and the return.                                             *)
NetworkDone ==
  /\ "network" \in waiting /\ counted \cap NetworkTasks = {}
  /\ waiting' = waiting \ {"network"}
  /\ End("network")
  /\ UNCHANGED <<phase, mountPoints, stats>>

(* calculateTotalDiskSpace.                                                 *)
TotalDiskSpace(disk) == SumFunction(disk)

(* wg.Wait(), the hardware totals, and the return.                           *)
Return ==
  /\ phase = "collecting" /\ counted \cap Tasks = {}
  /\ phase' = "returned"
  /\ stats' = [stats EXCEPT !.memoryTotal = stats.memory,
                            !.diskTotal = TotalDiskSpace(stats.disk)]
  /\ UNCHANGED <<mountPoints, running, counted, waiting>>

(* The goroutines but those of the mount points.                             *)
Readings ==
  \/ CollectCPU \/ CollectMemory \/ CollectDisk \/ DiskDone
  \/ CollectNetwork \/ CollectInterfaces \/ CollectAddresses
  \/ CollectConnections \/ NetworkDone

Next == Collect \/ Return \/ Readings \/ (\E m \in Mounts : CollectMount(m))

Spec == Init /\ [][Next]_vars
-----------------------------------------------------------------------------
(* What was handed out matches its parts: the totals are those of the        *)
(* memory and of the disks the same value lists.                            *)
TotalsMatchParts ==
  phase = "returned" =>
    /\ stats.memoryTotal = stats.memory
    /\ stats.diskTotal = TotalDiskSpace(stats.disk)

(* Nobody writes to a value that was handed out, while the agent encodes it. *)
HandedOutIsFinal ==
  [][phase = "returned" => phase' = "collecting" \/ UNCHANGED stats]_vars
=============================================================================
