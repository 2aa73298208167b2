---------------------------- MODULE ServerSelection ----------------------------
(***************************************************************************)
(* TACACS+ server selection: GetTacacsInfo and CreateClient               *)
(* (src/tacplus/helpers.go).  The configured servers are read in the      *)
(* order redis KEYS returns them, their priorities parsed with Atoi (a     *)
(* malformed or missing value parses as 0), the array heapified with       *)
(* container/heap and popped one server at a time until a connectivity     *)
(* probe succeeds.  The heap is modelled by what Go's container/heap does *)
(* (Init, Pop, down) on PriorityQueue, whose Less compares Priority.       *)
(***************************************************************************)
EXTENDS Naturals, Sequences, FiniteSets, Functions

CONSTANTS
  Servers,      \* the TACACS+ servers that may be configured
  Priorities,   \* the well-formed "priority" values a server may carry
  Malformed,    \* a "priority" field that is missing or not a number
  None, NoConfig, NoServer

ASSUME PrioritiesAssumption ==
  /\ Priorities \subseteq Nat
  /\ Malformed \notin Nat

VARIABLES
  keys,       \* TACPLUS_SERVER|* keys, in the order KEYS returned them
  rawPrio,    \* the "priority" field of each server's hash
  reachable,  \* the servers whose TestConnection succeeds
  queue,      \* the PriorityQueue array, 0-based index i at queue[i+1]
  probed,     \* the servers popped and probed, in order
  result,     \* None while selecting, then a server, NoConfig or NoServer
  phase       \* "read" before GetTacacsInfo, "walk" in CreateClient's loop

vars == <<keys, rawPrio, reachable, queue, probed, result, phase>>

(* strconv.Atoi with its error ignored: a failed parse yields 0. *)
Atoi(v) == IF v = Malformed THEN 0 ELSE v

(* TacacsInfo.Priority of each server. *)
prio == [s \in Servers |-> Atoi(rawPrio[s])]

(* The orders KEYS may return a pool in: any subset, any order. *)
DiscoveryOrders ==
  UNION {{f \in [1..Cardinality(S) -> S] : IsInjective(f)} : S \in SUBSET Servers}

(* PriorityQueue's Less and Swap on 0-based indices. *)
Less(h, i, j) == prio[h[i + 1]] < prio[h[j + 1]]
Swap(h, i, j) == [h EXCEPT ![i + 1] = h[j + 1], ![j + 1] = h[i + 1]]

(* container/heap's down: sift the element at i down within h[0..n-1]. *)
RECURSIVE SiftDown(_, _, _)
SiftDown(h, i, n) ==
  LET j1 == 2 * i + 1
      j  == IF j1 + 1 < n /\ Less(h, j1 + 1, j1) THEN j1 + 1 ELSE j1
  IN  IF j1 >= n \/ ~Less(h, j, i) THEN h ELSE SiftDown(Swap(h, i, j), j, n)

(* container/heap's Init: down(i) for i from n/2 - 1 down to 0. *)
RECURSIVE InitFrom(_, _)
InitFrom(h, i) == IF i < 0 THEN h ELSE InitFrom(SiftDown(h, i, Len(h)), i - 1)

HeapInit(h) == InitFrom(h, Len(h) \div 2 - 1)

(* Calling PriorityQueue.Pop directly: the last array element, no fix-up. *)
HeapPopUnordered(h) == <<h[Len(h)], SubSeq(h, 1, Len(h) - 1)>>

(***************************************************************************)
(* container/heap's Pop: swap the root with the last element, sift down    *)
(* the new root over the first n - 1 elements, then PriorityQueue.Pop      *)
(* removes and returns the last one.  Yields <<server, rest of the heap>>. *)
(***************************************************************************)
HeapPop(h) ==
  LET n  == Len(h) - 1
      h2 == SiftDown(Swap(h, 0, n), 0, n)
  IN  <<h2[n + 1], SubSeq(h2, 1, n)>>

TypeOK ==
  /\ keys \in DiscoveryOrders
  /\ rawPrio \in [Servers -> Priorities \cup {Malformed}]
  /\ reachable \subseteq Servers
  /\ queue \in Seq(Servers)
  /\ probed \in Seq(Servers)
  /\ result \in Servers \cup {None, NoConfig, NoServer}
  /\ phase \in {"read", "walk"}

Init ==
  /\ keys \in DiscoveryOrders
  /\ rawPrio \in [Servers -> Priorities \cup {Malformed}]
  /\ reachable \in SUBSET Servers
  /\ queue = <<>>
  /\ probed = <<>>
  /\ result = None
  /\ phase = "read"

(***************************************************************************)
(* GetTacacsInfo: no server keys, or a failed HGetAll, is an error that    *)
(* CreateClient reports as "No tacacs configuration found"; otherwise the  *)
(* array is built in KEYS order and heapified.                             *)
(***************************************************************************)
ReadConfig ==
  /\ phase = "read"
  /\ \/ /\ \E readErr \in BOOLEAN : keys = <<>> \/ readErr
        /\ result' = NoConfig
        /\ UNCHANGED <<queue, phase>>
     \/ /\ keys # <<>>
        /\ queue' = HeapInit(keys)
        /\ phase' = "walk"
        /\ UNCHANGED result
  /\ UNCHANGED <<keys, rawPrio, reachable, probed>>

(* One iteration of CreateClient's loop: pop, build a client, probe it. *)
Probe ==
  /\ phase = "walk"
  /\ result = None
  /\ queue # <<>>
  /\ LET p == HeapPop(queue)
     IN /\ queue' = p[2]
        /\ probed' = Append(probed, p[1])
        /\ result' = IF p[1] \in reachable THEN p[1] ELSE None
  /\ UNCHANGED <<keys, rawPrio, reachable, phase>>

(* The queue ran empty: "Unable to connect to any TACACS servers". *)
Exhausted ==
  /\ phase = "walk"
  /\ result = None
  /\ queue = <<>>
  /\ result' = NoServer
  /\ UNCHANGED <<keys, rawPrio, reachable, queue, probed, phase>>

Next == ReadConfig \/ Probe \/ Exhausted

Spec == Init /\ [][Next]_vars

-----------------------------------------------------------------------------
(* The heap's state is hidden; the rest maps to the abstract state as is. *)
Abs == INSTANCE ServerSelectionAbstract
         WITH keys <- keys, prio <- prio, reachable <- reachable,
              probed <- probed, result <- result

(***************************************************************************)
(* The spec (server selection with failover): CreateClient probes the pool *)
(* in ascending priority, ties in discovery order, each server once, and   *)
(* returns the first that answers.                                         *)
(***************************************************************************)
SelectionRefinesAbstract == Abs!AbsSpec
=============================================================================
