--------------------------- MODULE DatastoreLock ---------------------------
(***************************************************************************)
(* The datastore lock of the NETCONF server and the three RPC handlers     *)
(* that touch it (src/netconf/server/subhandlers.go):                      *)
(*                                                                         *)
(*   lockRequestHandler    SETNX CONFIG_LOCK <uuid> EX 15s                 *)
(*   unlockRequestHandler  GET CONFIG_LOCK, compare with the uuid          *)
(*   EditRequestHandler    EXISTS + GET CONFIG_LOCK, compare, the writes   *)
(*                                                                         *)
(* The uuid is context.Value("uuid"), which nothing in the server sets:    *)
(* it is nil in every session.  SETNX stores it as "", so the key holds    *)
(* the same value whoever took it, and neither handler's comparison of     *)
(* that string with the nil uuid ever succeeds.  lockKey therefore records *)
(* which session's SETNX created the key as history only; no step of the   *)
(* code reads it.                                                          *)
(*                                                                         *)
(* Every session runs on its own goroutine and handles one RPC at a time;  *)
(* the sessions share only the redis key CONFIG_LOCK.  Each redis round    *)
(* trip that reads or writes the key is a step of its own, so that the     *)
(* steps of other sessions, and the expiry of the key, can fall between    *)
(* them.  Calls that touch no shared state (the TACACS+ Authorize and      *)
(* Account calls, the XML parsing) are folded into the neighbouring step.  *)
(*                                                                         *)
(* The datastore itself (translib) is abstracted to the set of paths the   *)
(* current edit-config request has written, applied[s].                    *)
(***************************************************************************)
EXTENDS Naturals

CONSTANTS
  Sessions,   \* the open NETCONF sessions
  Paths,      \* the configuration paths an edit-config may name
  EditOps,    \* the operation tags an edit-config may carry
  NoLock,     \* the value of CONFIG_LOCK when the key does not exist
  None        \* no AAA command recorded yet in the current request

ASSUME ConstantsAssumption ==
  /\ NoLock \notin Sessions
  /\ EditOps \subseteq {"delete", "remove", "merge", "replace", "create"}

(* The command names the handlers pass to Authorize and Account. *)
Commands == {"get", "lock", "unlock", "edit-config"}

ASSUME NoneAssumption == None \notin Commands

(* The datastores a <target> element may name. *)
Targets == {"running", "startup"}

(* One compiled edit unit (a Config of parser.go): its path and operation. *)
Configs == [path : Paths, op : EditOps]

(* The Config lists ParseEditRequest can return: at most one unit per path. *)
EditRequests ==
  UNION { { {[path |-> p, op |-> f[p]] : p \in DOMAIN f} : f \in [D -> EditOps] }
          : D \in SUBSET Paths }

(* The paths a list of units names. *)
PathsOf(cs) == {c.path : c \in cs}

(* The replies of unlock that the model tells apart. *)
UnlockReplies == {None, "noActiveLock", "notOwner"}

VARIABLES
  lockKey,          \* NoLock, or the session whose SETNX created CONFIG_LOCK
  pc,               \* where each session is inside its current handler
  existsSeen,       \* result of the EXISTS call of the session's edit-config
  todo,             \* the Configs of the edit-config not yet applied
  denied,           \* the paths of the request the AAA server refuses
  applied,          \* the paths the current edit-config has written
  authz,            \* command named by the request's Authorize calls
  acct,             \* command named by the request's last Account call
  lockedSinceCheck, \* history: a SETNX succeeded since s began its lock check
  unlockReply       \* the error of s's last request if it was an unlock

vars == <<lockKey, pc, existsSeen, todo, denied, applied, authz, acct,
          lockedSinceCheck, unlockReply>>

PCs == {"idle", "editGet", "editApply"}

TypeOK ==
  /\ lockKey \in Sessions \cup {NoLock}
  /\ pc \in [Sessions -> PCs]
  /\ existsSeen \in [Sessions -> BOOLEAN]
  /\ todo \in [Sessions -> SUBSET Configs]
  /\ denied \in [Sessions -> SUBSET Paths]
  /\ applied \in [Sessions -> SUBSET Paths]
  /\ authz \in [Sessions -> Commands \cup {None}]
  /\ acct \in [Sessions -> Commands \cup {None}]
  /\ lockedSinceCheck \in [Sessions -> BOOLEAN]
  /\ unlockReply \in [Sessions -> UnlockReplies]

Init ==
  /\ lockKey = NoLock
  /\ pc = [s \in Sessions |-> "idle"]
  /\ existsSeen = [s \in Sessions |-> FALSE]
  /\ todo = [s \in Sessions |-> {}]
  /\ denied = [s \in Sessions |-> {}]
  /\ applied = [s \in Sessions |-> {}]
  /\ authz = [s \in Sessions |-> None]
  /\ acct = [s \in Sessions |-> None]
  /\ lockedSinceCheck = [s \in Sessions |-> FALSE]
  /\ unlockReply = [s \in Sessions |-> None]

(* The locals of the handler of session s. *)
locals == <<existsSeen, todo, denied, applied, lockedSinceCheck>>

(***************************************************************************)
(* The handler of s returns (its reply is written), its locals are gone    *)
(* and s is ready for the next RPC.  The history applied[s] is kept until  *)
(* the next edit-config of s.                                              *)
(***************************************************************************)
Return(s) ==
  /\ pc' = [pc EXCEPT ![s] = "idle"]
  /\ existsSeen' = [existsSeen EXCEPT ![s] = FALSE]
  /\ todo' = [todo EXCEPT ![s] = {}]
  /\ denied' = [denied EXCEPT ![s] = {}]
  /\ lockedSinceCheck' = [lockedSinceCheck EXCEPT ![s] = FALSE]

(* A new request of s: the AAA commands it names so far, its unlock reply. *)
StartRequest(s, az, ac, rep) ==
  /\ authz' = [authz EXCEPT ![s] = az]
  /\ acct' = [acct EXCEPT ![s] = ac]
  /\ unlockReply' = [unlockReply EXCEPT ![s] = rep]

(***************************************************************************)
(* The comparison `lockId != context.Value("uuid")`: the string read from  *)
(* the key against the nil interface.  They are never equal.               *)
(***************************************************************************)
LockValueIsUuid(s) == FALSE

(* Sessions inside the lock check or the writes of an edit-config. *)
Editing == {x \in Sessions : pc[x] \in {"editGet", "editApply"}}

-----------------------------------------------------------------------------
(***************************************************************************)
(* lock: target check, Authorize("lock"), SETNX, Account.  The Account     *)
(* call names "get", as the code does.  A failed SETNX (its error is       *)
(* ignored) is "lock is already held"; a refused Account reports an error  *)
(* and leaves the lock held.  Only the SETNX touches shared state.         *)
(***************************************************************************)
LockRequest(s) ==
  /\ pc[s] = "idle"
  /\ \E target \in Targets, authorized \in BOOLEAN :
       \/ /\ target # "running"
          /\ StartRequest(s, None, None, None)
          /\ UNCHANGED <<lockKey, lockedSinceCheck>>
       \/ /\ target = "running"
          /\ ~authorized \/ lockKey # NoLock
          /\ StartRequest(s, "lock", None, None)
          /\ UNCHANGED <<lockKey, lockedSinceCheck>>
       \/ /\ target = "running"
          /\ authorized /\ lockKey = NoLock
          /\ lockKey' = s
          /\ lockedSinceCheck' = [x \in Sessions |-> x \in Editing]
          /\ StartRequest(s, "lock", "get", None)
  /\ UNCHANGED <<pc, existsSeen, todo, denied, applied>>

(***************************************************************************)
(* unlock: target check, Authorize("unlock"), GET.  A missing key is "No   *)
(* active lock"; otherwise the value read is compared with the session's  *)
(* uuid, never equal (LockValueIsUuid), so the reply is "Current session   *)
(* doesn't own active lock" and the DEL and Account that follow are never  *)
(* reached.  No step of unlock changes shared state.                       *)
(***************************************************************************)
UnlockGet(s) ==
  /\ pc[s] = "idle"
  /\ \E target \in Targets, authorized \in BOOLEAN :
       \/ target # "running" /\ StartRequest(s, None, None, None)
       \/ target = "running" /\ ~authorized /\ StartRequest(s, "unlock", None, None)
       \/ /\ target = "running" /\ authorized
          /\ StartRequest(s, "unlock", None,
                          IF lockKey = NoLock THEN "noActiveLock" ELSE "notOwner")
  /\ UNCHANGED <<lockKey, pc, locals>>

-----------------------------------------------------------------------------
(***************************************************************************)
(* edit-config, first redis call: EXISTS CONFIG_LOCK.  The request body    *)
(* arrives here: the Configs ParseEditRequest will compile from it, and    *)
(* the subset of their paths the AAA server refuses.                       *)
(***************************************************************************)
EditExists(s) ==
  /\ pc[s] = "idle"
  /\ \E req \in EditRequests, refused \in SUBSET Paths :
       /\ refused \subseteq PathsOf(req)
       /\ todo' = [todo EXCEPT ![s] = req]
       /\ denied' = [denied EXCEPT ![s] = refused]
  /\ existsSeen' = [existsSeen EXCEPT ![s] = lockKey # NoLock]
  /\ applied' = [applied EXCEPT ![s] = {}]
  /\ pc' = [pc EXCEPT ![s] = "editGet"]
  /\ StartRequest(s, None, None, None)
  /\ UNCHANGED <<lockKey, lockedSinceCheck>>

(* ParseEditRequest's target check: only the running datastore. *)
TargetOK(target) == target = "running"

(* Mutant of LockedByOther: the ownership check left out. *)
LockedByOtherDropped(s) == FALSE

(* The check of EditRequestHandler: "there is a lock, and it is not owned  *)
(* by current session".  Since the uuid is never equal to the value read  *)
(* (an expired key reads as "" too), every lock refuses the edit, the one  *)
(* the session took itself included.                                      *)
LockedByOther(s) == existsSeen[s] /\ ~LockValueIsUuid(s)

(* Mutant of EditGet: the Authorize loop left out. *)
EditGetNoAuthorize(s) ==
  /\ pc[s] = "editGet"
  /\ \/ LockedByOther(s) /\ Return(s) /\ UNCHANGED authz
     \/ /\ ~LockedByOther(s)
        /\ \E target \in Targets :
             \/ ~TargetOK(target) /\ Return(s) /\ UNCHANGED authz
             \/ /\ TargetOK(target)
                /\ pc' = [pc EXCEPT ![s] = "editApply"]
                /\ UNCHANGED <<authz, locals>>
  /\ UNCHANGED <<lockKey, acct, applied, unlockReply>>

(***************************************************************************)
(* edit-config, second redis call: GET CONFIG_LOCK and the ownership       *)
(* check, then ParseEditRequest and one Authorize("edit-config", path) per *)
(* unit, all of them before any write.                                     *)
(***************************************************************************)
EditGet(s) ==
  /\ pc[s] = "editGet"
  /\ \/ LockedByOther(s) /\ Return(s) /\ UNCHANGED authz
     \/ /\ ~LockedByOther(s)
        /\ \E target \in Targets :
             \/ ~TargetOK(target) /\ Return(s) /\ UNCHANGED authz
             \/ /\ TargetOK(target)
                /\ authz' = [authz EXCEPT ![s] =
                               IF todo[s] = {} THEN None ELSE "edit-config"]
                /\ \/ denied[s] # {} /\ Return(s)
                   \/ /\ denied[s] = {}
                      /\ pc' = [pc EXCEPT ![s] = "editApply"]
                      /\ UNCHANGED locals
  /\ UNCHANGED <<lockKey, acct, applied, unlockReply>>

(***************************************************************************)
(* ParseEditRequest concatenates its passes in the order delete, remove,   *)
(* merge, replace, create; the units are applied in that order.            *)
(***************************************************************************)
PassRank(op) ==
  CASE op = "delete" -> 1 [] op = "remove" -> 2 [] op = "merge" -> 3
    [] op = "replace" -> 4 [] op = "create" -> 5

(* The unit EditRequestHandler applies next: one of the earliest pass. *)
IsNextConfig(c, cs) == c \in cs /\ \A d \in cs : PassRank(c.op) <= PassRank(d.op)

(* Mutant of EditApply: Account called with its arguments swapped. *)
EditApplyArgsSwapped(s) ==
  /\ pc[s] = "editApply"
  /\ \/ todo[s] = {} /\ Return(s) /\ UNCHANGED <<acct, applied>>
     \/ \E c \in todo[s], written, accounted \in BOOLEAN :
          /\ IsNextConfig(c, todo[s])
          /\ \/ (c.op \notin {"merge", "delete"} \/ ~written)
                  /\ Return(s) /\ UNCHANGED <<acct, applied>>
             \/ /\ c.op \in {"merge", "delete"} /\ written
                /\ applied' = [applied EXCEPT ![s] = @ \cup {c.path}]
                /\ acct' = [acct EXCEPT ![s] = c.path]
                /\ \/ ~accounted /\ Return(s)
                   \/ /\ accounted
                      /\ todo' = [todo EXCEPT ![s] = @ \ {c}]
                      /\ UNCHANGED <<pc, existsSeen, denied, lockedSinceCheck>>
  /\ UNCHANGED <<lockKey, authz, unlockReply>>

(***************************************************************************)
(* edit-config, the apply loop, one unit per step.  merge is a translib    *)
(* Create and delete a Delete; any other tag ends the request with         *)
(* "unsupported operation", after the earlier units were applied.  A       *)
(* translib error ends it as well.  Each write is followed by              *)
(* Account("edit-config", path); a refusal ends the request.               *)
(***************************************************************************)
EditApply(s) ==
  /\ pc[s] = "editApply"
  /\ \/ todo[s] = {} /\ Return(s) /\ UNCHANGED <<acct, applied>>
     \/ \E c \in todo[s], written, accounted \in BOOLEAN :
          /\ IsNextConfig(c, todo[s])
          /\ \/ (c.op \notin {"merge", "delete"} \/ ~written)
                  /\ Return(s) /\ UNCHANGED <<acct, applied>>
             \/ /\ c.op \in {"merge", "delete"} /\ written
                /\ applied' = [applied EXCEPT ![s] = @ \cup {c.path}]
                /\ acct' = [acct EXCEPT ![s] = "edit-config"]
                /\ \/ ~accounted /\ Return(s)
                   \/ /\ accounted
                      /\ todo' = [todo EXCEPT ![s] = @ \ {c}]
                      /\ UNCHANGED <<pc, existsSeen, denied, lockedSinceCheck>>
  /\ UNCHANGED <<lockKey, authz, unlockReply>>

-----------------------------------------------------------------------------
(***************************************************************************)
(* The key was set with a 15 second expiry; redis deletes it at any moment *)
(* after that, whatever step the sessions are at.                          *)
(***************************************************************************)
Expire ==
  /\ lockKey # NoLock
  /\ lockKey' = NoLock
  /\ UNCHANGED <<pc, authz, acct, locals, unlockReply>>

(* handleRequest dispatches on the RPC name; sessions interleave freely. *)
Next ==
  \/ \E s \in Sessions :
       \/ LockRequest(s) \/ UnlockGet(s)
       \/ EditExists(s) \/ EditGet(s) \/ EditApply(s)
  \/ Expire

Spec == Init /\ [][Next]_vars

-----------------------------------------------------------------------------
(***************************************************************************)
(* Properties.                                                             *)
(***************************************************************************)

(***************************************************************************)
(* The lock check of EditRequestHandler (EXISTS, then GET, then compare)   *)
(* is not atomic with the writes that follow it.  A session about to write *)
(* while another session holds CONFIG_LOCK is always one whose check began *)
(* before that SETNX succeeded: the lock is bypassed only by an edit       *)
(* already in flight, never by one that started after the lock was taken.  *)
(***************************************************************************)
LockBypassOnlyByInFlightEdit ==
  \A s \in Sessions :
     (pc[s] = "editApply" /\ lockKey \notin {NoLock, s}) => lockedSinceCheck[s]

(***************************************************************************)
(* EditRequestHandler authorizes every path of the request before it       *)
(* writes any: an edit-config of which the AAA server refuses one path     *)
(* writes none of its paths.                                               *)
(***************************************************************************)
DeniedRequestWritesNothing ==
  \A s \in Sessions : applied[s] # {} => denied[s] = {}

(***************************************************************************)
(* Spec 8: the same session can always unlock what it locked.  An unlock   *)
(* answered "Current session doesn't own active lock" was sent while the   *)
(* key was held by another session, never by the session's own SETNX.     *)
(***************************************************************************)
HolderCanUnlock ==
  \A s \in Sessions : unlockReply[s] = "notOwner" => lockKey # s

(***************************************************************************)
(* Spec 3 and 5: the lock is the coordination point between sessions; no   *)
(* session writes the datastore while another session holds the lock.     *)
(***************************************************************************)
NoWriteUnderForeignLock ==
  [][\A s \in Sessions :
       applied'[s] \ applied[s] # {} => lockKey \in {NoLock, s}]_vars

=============================================================================
