----------------------------- MODULE Capabilities -----------------------------
(***************************************************************************)
(* The server hello of every new session: capabilitesXML                   *)
(* (src/netconf/server/handler.go) and readYangModules                     *)
(* (src/netconf/server/subhandlers.go).  Each session runs them on its own *)
(* goroutine, and they share, with no lock, the counter sessionID, the     *)
(* flag read and the module cache YangModules / YangSchemas.               *)
(*                                                                         *)
(* sessionID += 1 is a load and a store (a data race: a concurrent store  *)
(* may be lost), and serverHello.SessionID = sessionID loads it again.     *)
(* readYangModules resets YangSchemas, fetches the module list, then       *)
(* appends one module at a time, in map iteration order, to the shared     *)
(* list; read is set at its end.  YangModules.Modules = append(...) loads  *)
(* the slice, then stores the longer one: a session storing after another  *)
(* session's stores puts back the list it loaded, and the modules appended *)
(* in between are lost.  Concurrent writes to the YangSchemas map *)
(* may stop the process ("concurrent map writes"); a nil ModuleSetId,      *)
(* after a failed fetch, is dereferenced outside any recover: a panic that *)
(* stops the process too.                                                  *)
(***************************************************************************)
EXTENDS Naturals, Sequences, FiniteSets, Functions, SequencesExt

CONSTANTS
  Sessions,   \* the sessions that connect
  Modules     \* the YANG modules translib reports

VARIABLES
  sessionID,  \* the global counter
  pc,         \* where each session's goroutine is
  tmp,        \* the value of sessionID its increment loaded
  sid,        \* the SessionID of its hello, 0 before it is set
  read,       \* the global flag: the module list has been read
  setId,      \* YangModules.ModuleSetId: "nil" or "set"
  modules,    \* YangModules.Modules, in append order
  pending,    \* the modules left in a session's fetch loop
  loaded,     \* the YangModules.Modules its current append loaded
  fetches,    \* calls of GetYanglibInfo so far
  sent,       \* the module list of the hello each session wrote
  crashed     \* the process stopped on a runtime fault

vars == <<sessionID, pc, tmp, sid, read, setId, modules, pending, loaded,
          fetches, sent, crashed>>

PCs == {"start", "store", "readId", "check", "fetch", "append", "storeModule",
        "build", "done"}

(* The orders in which ranging over translib's module map may go. *)
ModuleOrders == {f \in [1..Cardinality(Modules) -> Modules] : IsInjective(f)}

TypeOK ==
  /\ sessionID \in Nat
  /\ pc \in [Sessions -> PCs]
  /\ tmp \in [Sessions -> Nat]
  /\ sid \in [Sessions -> Nat]
  /\ read \in BOOLEAN
  /\ setId \in {"nil", "set"}
  /\ modules \in Seq(Modules)
  /\ pending \in [Sessions -> Seq(Modules)]
  /\ loaded \in [Sessions -> Seq(Modules)]
  /\ fetches \in Nat
  /\ sent \in [Sessions -> Seq(Modules)]
  /\ crashed \in BOOLEAN

Init ==
  /\ sessionID = 0
  /\ pc = [s \in Sessions |-> "start"]
  /\ tmp = [s \in Sessions |-> 0]
  /\ sid = [s \in Sessions |-> 0]
  /\ read = FALSE
  /\ setId = "nil"
  /\ modules = <<>>
  /\ pending = [s \in Sessions |-> <<>>]
  /\ loaded = [s \in Sessions |-> <<>>]
  /\ fetches = 0
  /\ sent = [s \in Sessions |-> <<>>]
  /\ crashed = FALSE

(* Session s moves from one point of capabilitesXML to the next. *)
Goto(s, from, to) ==
  /\ ~crashed
  /\ pc[s] = from
  /\ pc' = [pc EXCEPT ![s] = to]

(* sessionID += 1: the load. *)
LoadId(s) ==
  /\ Goto(s, "start", "store")
  /\ tmp' = [tmp EXCEPT ![s] = sessionID]
  /\ UNCHANGED <<sessionID, sid, read, setId, modules, pending, loaded,
                 fetches, sent, crashed>>

(* sessionID += 1: the store. *)
StoreId(s) ==
  /\ Goto(s, "store", "readId")
  /\ sessionID' = tmp[s] + 1
  /\ UNCHANGED <<tmp, sid, read, setId, modules, pending, loaded, fetches,
                 sent, crashed>>

(* serverHello.SessionID = sessionID. *)
ReadId(s) ==
  /\ Goto(s, "readId", "check")
  /\ sid' = [sid EXCEPT ![s] = sessionID]
  /\ UNCHANGED <<sessionID, tmp, read, setId, modules, pending, loaded,
                 fetches, sent, crashed>>

(* if !read { readYangModules() } *)
CheckRead(s) ==
  /\ Goto(s, "check", IF read THEN "build" ELSE "fetch")
  /\ UNCHANGED <<sessionID, tmp, sid, read, setId, modules, pending, loaded,
                 fetches, sent, crashed>>

(***************************************************************************)
(* readYangModules up to its loop: YangSchemas is made anew and            *)
(* GetYanglibInfo called.  On an error it returns with read still false    *)
(* and ModuleSetId as it was; otherwise ModuleSetId is set and the loop    *)
(* over the module map begins.                                             *)
(***************************************************************************)
Fetch(s) ==
  /\ ~crashed
  /\ pc[s] = "fetch"
  /\ fetches' = fetches + 1
  /\ \/ /\ pc' = [pc EXCEPT ![s] = "build"]
        /\ UNCHANGED <<setId, pending>>
     \/ /\ setId' = "set"
        /\ \E order \in ModuleOrders : pending' = [pending EXCEPT ![s] = order]
        /\ pc' = [pc EXCEPT ![s] = "append"]
  /\ UNCHANGED <<sessionID, tmp, sid, read, modules, loaded, sent, crashed>>

(***************************************************************************)
(* One iteration of the loop, up to the append: the module is added to     *)
(* YangSchemas, and the append loads YangModules.Modules.  If another      *)
(* session is in its loop the unsynchronised map write may be detected and *)
(* stop the process.                                                       *)
(***************************************************************************)
AppendModule(s) ==
  /\ ~crashed
  /\ pc[s] = "append"
  /\ pending[s] # <<>>
  /\ \/ /\ loaded' = [loaded EXCEPT ![s] = modules]
        /\ pc' = [pc EXCEPT ![s] = "storeModule"]
        /\ UNCHANGED crashed
     \/ /\ \E t \in Sessions \ {s} : pc[t] \in {"append", "storeModule"}
        /\ crashed' = TRUE
        /\ UNCHANGED <<loaded, pc>>
  /\ UNCHANGED <<sessionID, tmp, sid, read, setId, modules, pending, fetches,
                 sent>>

(* The append's store: the slice it loaded, one module longer. *)
StoreModule(s) ==
  /\ Goto(s, "storeModule", "append")
  /\ modules' = Append(loaded[s], Head(pending[s]))
  /\ pending' = [pending EXCEPT ![s] = Tail(pending[s])]
  /\ UNCHANGED <<sessionID, tmp, sid, read, setId, loaded, fetches, sent,
                 crashed>>

(* The loop is over: read = true. *)
FinishFetch(s) ==
  /\ Goto(s, "append", "build")
  /\ pending[s] = <<>>
  /\ read' = TRUE
  /\ UNCHANGED <<sessionID, tmp, sid, setId, modules, pending, loaded,
                 fetches, sent, crashed>>

(***************************************************************************)
(* The rest of capabilitesXML: *YangModules.ModuleSetId (a nil pointer     *)
(* dereference stops the process) and one capability per module of        *)
(* YangModules.Modules, written as the server hello.                       *)
(***************************************************************************)
Build(s) ==
  /\ ~crashed
  /\ pc[s] = "build"
  /\ \/ /\ setId = "nil"
        /\ crashed' = TRUE
        /\ UNCHANGED <<pc, sent>>
     \/ /\ setId = "set"
        /\ sent' = [sent EXCEPT ![s] = modules]
        /\ pc' = [pc EXCEPT ![s] = "done"]
        /\ UNCHANGED crashed
  /\ UNCHANGED <<sessionID, tmp, sid, read, setId, modules, pending, loaded,
                 fetches>>

Next ==
  \E s \in Sessions :
    \/ LoadId(s) \/ StoreId(s) \/ ReadId(s) \/ CheckRead(s)
    \/ Fetch(s) \/ AppendModule(s) \/ StoreModule(s) \/ FinishFetch(s)
    \/ Build(s)

Spec == Init /\ [][Next]_vars

-----------------------------------------------------------------------------
(***************************************************************************)
(* The module cache of readYangModules: once read is set, no session       *)
(* fetches again, so from then on YangModules.Modules must hold every      *)
(* module translib reports.                                                *)
(***************************************************************************)
CacheCompleteWhenRead == read => Modules \subseteq Range(modules)

(***************************************************************************)
(* The spec (session & framing): the hello lists every module the backing *)
(* store knows.  A session whose own fetch failed finds ModuleSetId set by *)
(* another session still in its loop, and lists the modules appended so  *)
(* far.                                                                    *)
(***************************************************************************)
HelloListsEveryModule ==
  \A s \in Sessions : pc[s] = "done" => Modules \subseteq Range(sent[s])

=============================================================================
