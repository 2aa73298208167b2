------------------------ MODULE DatastoreLockProofs ------------------------
(***************************************************************************)
(* Proofs about DatastoreLock, for every set of sessions and paths.        *)
(***************************************************************************)
EXTENDS DatastoreLock, TLAPS

(***************************************************************************)
(* The strengthening of the two safety invariants.                         *)
(*                                                                         *)
(* CheckPending: an edit-config whose EXISTS found no key is still safe    *)
(* at its GET: either the key is still absent, or a SETNX has happened     *)
(* since, and that SETNX is recorded.  (The GET itself does not reject a   *)
(* foreign holder when EXISTS said 0.)                                     *)
(*                                                                         *)
(* NoDenialOutsideCheck / NoWriteBeforeCheck: a refused path can only be   *)
(* pending while the request is still at its lock check and before its    *)
(* first write.                                                            *)
(***************************************************************************)
CheckPending ==
  \A s \in Sessions :
     (pc[s] = "editGet" /\ ~existsSeen[s]) => (lockKey = NoLock \/ lockedSinceCheck[s])

NoDenialOutsideCheck == \A s \in Sessions : pc[s] # "editGet" => denied[s] = {}

NoWriteBeforeCheck == \A s \in Sessions : pc[s] = "editGet" => applied[s] = {}

IInv ==
  /\ TypeOK
  /\ CheckPending
  /\ LockBypassOnlyByInFlightEdit
  /\ NoDenialOutsideCheck
  /\ NoWriteBeforeCheck

-----------------------------------------------------------------------------
(* Every Config list ParseEditRequest can return is a set of Configs. *)
LEMMA EditRequestsAreConfigs == EditRequests \subseteq SUBSET Configs
  BY DEF EditRequests, Configs

(***************************************************************************)
(* Type correctness: every step keeps every variable in its type.          *)
(***************************************************************************)
LEMMA TypeStep == TypeOK /\ [Next]_vars => TypeOK'
  <1> SUFFICES ASSUME TypeOK, [Next]_vars PROVE TypeOK'
    OBVIOUS
  <1>1. ASSUME NEW s \in Sessions, LockRequest(s) PROVE TypeOK'
    <2>1. PICK target \in Targets, authorized \in BOOLEAN :
                \/ /\ target # "running"
                   /\ StartRequest(s, None, None, None)
                   /\ UNCHANGED <<lockKey, lockedSinceCheck>>
                \/ /\ target = "running"
                   /\ ~authorized \/ lockKey # NoLock
                   /\ StartRequest(s, "lock", None, None)
                   /\ UNCHANGED <<lockKey, lockedSinceCheck>>
                \/ /\ target = "running"
                   /\ authorized /\ lockKey = NoLock
                   /\ lockKey' = s
                   /\ lockedSinceCheck' = [x \in Sessions |-> x \in Editing]
                   /\ StartRequest(s, "lock", "get", None)
      BY <1>1 DEF LockRequest
    <2>2. UNCHANGED <<pc, existsSeen, todo, denied, applied>>
      BY <1>1 DEF LockRequest
    <2>3. CASE UNCHANGED <<lockKey, lockedSinceCheck>>
                 /\ \E az \in Commands \cup {None} : StartRequest(s, az, None, None)
      BY <2>2, <2>3 DEF StartRequest, TypeOK, UnlockReplies
    <2>4. CASE /\ lockKey' = s
               /\ lockedSinceCheck' = [x \in Sessions |-> x \in Editing]
               /\ StartRequest(s, "lock", "get", None)
      BY <2>2, <2>4 DEF StartRequest, TypeOK, Commands, UnlockReplies
    <2>5. QED
      BY <2>1, <2>3, <2>4 DEF Commands
  <1>2. ASSUME NEW s \in Sessions, UnlockGet(s) PROVE TypeOK'
    BY <1>2 DEF UnlockGet, StartRequest, TypeOK, PCs, Commands, UnlockReplies, locals
  <1>4. ASSUME NEW s \in Sessions, EditExists(s) PROVE TypeOK'
    BY <1>4, EditRequestsAreConfigs DEF EditExists, StartRequest, TypeOK, PCs, UnlockReplies
  <1>5. ASSUME NEW s \in Sessions, EditGet(s) PROVE TypeOK'
    BY <1>5 DEF EditGet, Return, TypeOK, PCs, Commands, locals
  <1>6. ASSUME NEW s \in Sessions, EditApply(s) PROVE TypeOK'
    <2>1. CASE todo[s] = {} /\ Return(s) /\ UNCHANGED <<acct, applied>>
      BY <2>1, <1>6 DEF EditApply, Return, TypeOK, PCs
    <2>2. ASSUME NEW c \in todo[s], NEW written \in BOOLEAN,
                 NEW accounted \in BOOLEAN,
                 \/ (c.op \notin {"merge", "delete"} \/ ~written)
                      /\ Return(s) /\ UNCHANGED <<acct, applied>>
                 \/ /\ c.op \in {"merge", "delete"} /\ written
                    /\ applied' = [applied EXCEPT ![s] = @ \cup {c.path}]
                    /\ acct' = [acct EXCEPT ![s] = "edit-config"]
                    /\ \/ ~accounted /\ Return(s)
                       \/ /\ accounted
                          /\ todo' = [todo EXCEPT ![s] = @ \ {c}]
                          /\ UNCHANGED <<pc, existsSeen, denied, lockedSinceCheck>>
          PROVE TypeOK'
      <3>1. c \in Configs
        BY DEF TypeOK
      <3>2. UNCHANGED <<lockKey, authz, unlockReply>>
        BY <1>6 DEF EditApply
      <3>3. CASE Return(s) /\ UNCHANGED <<acct, applied>>
        BY <3>2, <3>3 DEF Return, TypeOK, PCs
      <3>4. CASE /\ applied' = [applied EXCEPT ![s] = @ \cup {c.path}]
                 /\ acct' = [acct EXCEPT ![s] = "edit-config"]
                 /\ Return(s)
        BY <3>1, <3>2, <3>4 DEF Return, TypeOK, PCs, Commands, Configs
      <3>5. CASE /\ applied' = [applied EXCEPT ![s] = @ \cup {c.path}]
                 /\ acct' = [acct EXCEPT ![s] = "edit-config"]
                 /\ todo' = [todo EXCEPT ![s] = @ \ {c}]
                 /\ UNCHANGED <<pc, existsSeen, denied, lockedSinceCheck>>
        BY <3>1, <3>2, <3>5 DEF TypeOK, Commands, Configs
      <3>6. QED
        BY <2>2, <3>3, <3>4, <3>5
    <2>3. QED
      BY <1>6, <2>1, <2>2 DEF EditApply
  <1>7. CASE Expire
    BY <1>7 DEF Expire, TypeOK, locals
  <1>8. CASE UNCHANGED vars
    BY <1>8 DEF vars, TypeOK
  <1>9. QED
    BY <1>1, <1>2, <1>4, <1>5, <1>6, <1>7, <1>8 DEF Next

(* Spec keeps TypeOK. *)
THEOREM TypeCorrect == Spec => []TypeOK
  <1>1. Init => TypeOK
    BY DEF Init, TypeOK, PCs, UnlockReplies
  <1>2. QED
    BY <1>1, TypeStep, PTL DEF Spec

-----------------------------------------------------------------------------
(***************************************************************************)
(* IInv is inductive.  One step per action; the definitions of the four    *)
(* invariant parts are expanded where the action can disturb them.         *)
(***************************************************************************)
LEMMA IInvStep == IInv /\ [Next]_vars => IInv'
  <1> SUFFICES ASSUME IInv, [Next]_vars PROVE IInv'
    OBVIOUS
  <1>0. TypeOK'
    BY TypeStep DEF IInv
  <1> USE DEF IInv, CheckPending, LockBypassOnlyByInFlightEdit,
              NoDenialOutsideCheck, NoWriteBeforeCheck
  <1>1. ASSUME NEW s \in Sessions, LockRequest(s) PROVE IInv'
    BY <1>0, <1>1 DEF LockRequest, StartRequest, TypeOK, Editing
  <1>2. ASSUME NEW s \in Sessions, UnlockGet(s) PROVE IInv'
    BY <1>0, <1>2 DEF UnlockGet, StartRequest, TypeOK, locals
  <1>4. ASSUME NEW s \in Sessions, EditExists(s) PROVE IInv'
    BY <1>0, <1>4 DEF EditExists, StartRequest, TypeOK
  <1>5. ASSUME NEW s \in Sessions, EditGet(s) PROVE IInv'
    BY <1>0, <1>5 DEF EditGet, LockedByOther, LockValueIsUuid, Return, TypeOK, locals
  <1>6. ASSUME NEW s \in Sessions, EditApply(s) PROVE IInv'
    BY <1>0, <1>6 DEF EditApply, Return, TypeOK
  <1>7. CASE Expire
    BY <1>0, <1>7 DEF Expire, TypeOK, locals
  <1>8. CASE UNCHANGED vars
    BY <1>0, <1>8 DEF vars
  <1>9. QED
    BY <1>1, <1>2, <1>4, <1>5, <1>6, <1>7, <1>8 DEF Next

(* Spec keeps the inductive invariant. *)
THEOREM IInvariant == Spec => []IInv
  <1>1. Init => IInv
    BY DEF Init, IInv, TypeOK, PCs, UnlockReplies, CheckPending, LockBypassOnlyByInFlightEdit,
           NoDenialOutsideCheck, NoWriteBeforeCheck
  <1>2. QED
    BY <1>1, IInvStep, PTL DEF Spec

(***************************************************************************)
(* For any number of sessions and paths: an edit-config writes under a     *)
(* lock another session holds only when that lock was taken after its      *)
(* check began.                                                            *)
(***************************************************************************)
THEOREM LockBypassTheorem == Spec => []LockBypassOnlyByInFlightEdit
  BY IInvariant, PTL DEF IInv

(***************************************************************************)
(* For any number of sessions and paths: an edit-config with a refused     *)
(* path writes nothing.                                                    *)
(***************************************************************************)
THEOREM DeniedRequestTheorem == Spec => []DeniedRequestWritesNothing
  <1>1. IInv => DeniedRequestWritesNothing
    BY DEF IInv, DeniedRequestWritesNothing, NoDenialOutsideCheck,
           NoWriteBeforeCheck
  <1>2. QED
    BY <1>1, IInvariant, PTL
=============================================================================
