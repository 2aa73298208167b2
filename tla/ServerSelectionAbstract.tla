------------------------ MODULE ServerSelectionAbstract ------------------------
(***************************************************************************)
(* What server selection promises (spec.md, AAA substrate): the pool is    *)
(* walked in ascending priority, ties in discovery order, one probe per    *)
(* server, stopping at the first server that answers.  If the pool cannot *)
(* be read the selection fails with "no configuration"; if no server       *)
(* answers it fails with "unable to connect".                              *)
(***************************************************************************)
EXTENDS Naturals, Sequences, FiniteSets, Functions

CONSTANTS
  Servers,       \* the configured TACACS+ servers
  None, NoConfig, NoServer

VARIABLES
  keys,       \* the servers in discovery order
  prio,       \* the priority of each server
  reachable,  \* the servers whose connectivity probe succeeds
  probed,     \* the servers probed so far, in order
  result      \* None while selecting, then a server, NoConfig or NoServer

absVars == <<keys, prio, reachable, probed, result>>

(* The position of server s in discovery order. *)
Pos(s) == CHOOSE i \in DOMAIN keys : keys[i] = s

(* t is tried before s: lower priority, or equal and discovered first. *)
Before(t, s) ==
  \/ prio[t] < prio[s]
  \/ prio[t] = prio[s] /\ Pos(t) < Pos(s)

(* The promised probe order. *)
Order ==
  [i \in DOMAIN keys |->
     CHOOSE s \in Range(keys) :
       Cardinality({t \in Range(keys) : Before(t, s)}) = i - 1]

AbsInit ==
  /\ probed = <<>>
  /\ result = None

(* The pool cannot be read: nothing is probed. *)
AbsNoConfig ==
  /\ result = None
  /\ probed = <<>>
  /\ result' = NoConfig
  /\ UNCHANGED <<keys, prio, reachable, probed>>

(* The next server in order is probed; the first success is the result. *)
AbsProbe ==
  /\ result = None
  /\ Len(probed) < Len(keys)
  /\ LET s == Order[Len(probed) + 1]
     IN /\ probed' = Append(probed, s)
        /\ result' = IF s \in reachable THEN s ELSE None
  /\ UNCHANGED <<keys, prio, reachable>>

(* Every server was probed and none answered. *)
AbsExhausted ==
  /\ result = None
  /\ keys # <<>>
  /\ Len(probed) = Len(keys)
  /\ result' = NoServer
  /\ UNCHANGED <<keys, prio, reachable, probed>>

AbsNext == AbsNoConfig \/ AbsProbe \/ AbsExhausted

AbsSpec == AbsInit /\ [][AbsNext]_absVars
=============================================================================
