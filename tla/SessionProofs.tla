---------------------------- MODULE SessionProofs ----------------------------
(***************************************************************************)
(* Proofs about one NETCONF session (module Session): the session state    *)
(* stays well typed, the AAA gate runs an operation only after Authorize,  *)
(* and after a TACACS+ close-session nothing is authorized again.          *)
(***************************************************************************)
EXTENDS Session, SequenceTheorems, TLAPS

(* The context's "auth" is the authenticator bound at login, or nil, and   *)
(* only a TACACS+ session ever has it cleared.                             *)
AuthBound ==
  /\ auth \in {authType, "nil"}
  /\ auth = "nil" => authType = "tacacs"

(* An authorized close-session of a TACACS+ session is in the log. *)
Released ==
  \E i \in DOMAIN log :
    /\ authType = "tacacs"
    /\ log[i].msg = "close-session"
    /\ log[i].authorized

(* close-session's operation cleared "auth" when it released the principal. *)
ReleaseClearsAuth == Released => auth = "nil"

(***************************************************************************)
(* The inductive invariant.  NoUseAfterRelease alone is not inductive: a   *)
(* step appends a record whose authorized field depends on auth, so the    *)
(* invariant must say that auth is nil once the principal was released.    *)
(***************************************************************************)
IInv ==
  /\ TypeOK
  /\ AuthBound
  /\ ReleaseClearsAuth
  /\ AuthorizeBeforeExecute
  /\ NoUseAfterRelease

-----------------------------------------------------------------------------
(* What handleRequest records for a message of kind m is a record of it. *)
LEMMA HandleType ==
  ASSUME NEW m \in Msgs, NEW az, NEW ex, NEW ac, NEW pre, NEW pan,
         {az, ex, ac, pre, pan} \subseteq BOOLEAN
  PROVE  /\ Handle(m, az, ex, ac, pre, pan) \in Records
         /\ Handle(m, az, ex, ac, pre, pan).msg = m
BY DEF Handle, WithAuth, Outcome, Records, Msgs, Ops, WithAuthOps, GatedOps,
       UngatedOps

(***************************************************************************)
(* The arms handleRequest takes for an AAA-gated RPC: withAuth with an     *)
(* operation that cannot fail (commit, close-session) or can, a panic      *)
(* after Authorize in a get, or a failed precheck.                         *)
(***************************************************************************)
LEMMA HandleCases ==
  ASSUME NEW m \in AAAOps, NEW az, NEW ex, NEW ac, NEW pre, NEW pan
  PROVE  LET r == Handle(m, az, ex, ac, pre, pan)
         IN  \/ m \in {"commit", "close-session"} /\ r = WithAuth(m, az, TRUE, ac)
             \/ r = WithAuth(m, az, ex, ac)
             \/ auth # "nil" /\ az /\ r = Outcome(m, TRUE, FALSE, FALSE, TRUE)
             \/ r = Outcome(m, FALSE, FALSE, FALSE, FALSE)
<1>1. CASE m \in {"commit", "close-session"}
  <2>1. Handle(m, az, ex, ac, pre, pan) = WithAuth(m, az, TRUE, ac)
    BY <1>1, ZenonT(60) DEF Handle, GatedOps, GetPanics
  <2>. QED BY <1>1, <2>1
<1>2. CASE m = "get-schema"
  <2>1. Handle(m, az, ex, ac, pre, pan) = WithAuth(m, az, ex, ac)
    BY <1>2, ZenonT(60) DEF Handle, GatedOps, GetPanics
  <2>. QED BY <2>1
<1>3. CASE m \in GatedOps /\ pre
  BY <1>3, Zenon DEF Handle, GatedOps
<1>4. CASE m \in GatedOps /\ ~pre /\ GetPanics(m, az, pan)
  BY <1>4, Zenon DEF Handle, GatedOps, GetPanics
<1>5. CASE m \in GatedOps /\ ~pre /\ ~GetPanics(m, az, pan)
  BY <1>5, Zenon DEF Handle, GatedOps, GetPanics
<1>. QED BY <1>1, <1>2, <1>3, <1>4, <1>5 DEF AAAOps, WithAuthOps

(* The AAA gate of one message: executed only if authorized, accounted     *)
(* only if executed.                                                       *)
LEMMA HandleGate ==
  ASSUME NEW m \in AAAOps, NEW az, NEW ex, NEW ac, NEW pre, NEW pan
  PROVE  {az, ex, ac} \subseteq BOOLEAN =>
           LET r == Handle(m, az, ex, ac, pre, pan)
           IN  /\ r.executed => r.authorized
               /\ r.accounted => r.executed
<1> DEFINE res == Handle(m, az, ex, ac, pre, pan)
<1>1. \/ res = WithAuth(m, az, TRUE, ac)
      \/ res = WithAuth(m, az, ex, ac)
      \/ res = Outcome(m, TRUE, FALSE, FALSE, TRUE)
      \/ res = Outcome(m, FALSE, FALSE, FALSE, FALSE)
  BY HandleCases DEF res
<1>. QED BY <1>1 DEF res, WithAuth, Outcome

(* With auth cleared, an AAA-gated RPC panics before Authorize. *)
LEMMA HandleNil ==
  ASSUME NEW m \in AAAOps, NEW az, NEW ex, NEW ac, NEW pre, NEW pan,
         auth = "nil"
  PROVE  ~Handle(m, az, ex, ac, pre, pan).authorized
<1> DEFINE res == Handle(m, az, ex, ac, pre, pan)
<1>1. \/ res = WithAuth(m, az, TRUE, ac)
      \/ res = WithAuth(m, az, ex, ac)
      \/ auth # "nil" /\ res = Outcome(m, TRUE, FALSE, FALSE, TRUE)
      \/ res = Outcome(m, FALSE, FALSE, FALSE, FALSE)
  BY HandleCases DEF res
<1>. QED BY <1>1 DEF WithAuth, Outcome

(* An authorized close-session had Authorize agree on a live principal. *)
LEMMA HandleClose ==
  ASSUME NEW az, NEW ex, NEW ac, NEW pre, NEW pan,
         Handle("close-session", az, ex, ac, pre, pan).authorized
  PROVE  az /\ auth # "nil"
<1>1. Handle("close-session", az, ex, ac, pre, pan)
        = WithAuth("close-session", az, TRUE, ac)
  BY ZenonT(60) DEF Handle, GatedOps, GetPanics
<1>. QED BY <1>1 DEF WithAuth, Outcome

-----------------------------------------------------------------------------
LEMMA InitIInv == Init => IInv
<1> SUFFICES ASSUME Init PROVE IInv
  OBVIOUS
<1>1. TypeOK
  <2>1. inbox \in Seq(Msgs)
    BY ScriptsAssumption DEF Init
  <2>2. <<>> \in Seq(Msgs) /\ <<>> \in Seq(Records)
    BY EmptySeq
  <2>. QED BY <2>1, <2>2 DEF Init, TypeOK
<1>2. DOMAIN log = {}
  BY DEF Init
<1>. QED BY <1>1, <1>2
  DEF Init, IInv, AuthBound, ReleaseClearsAuth, Released,
      AuthorizeBeforeExecute, NoUseAfterRelease

(* The steps other than Process leave auth and the log alone. *)
LEMMA OtherSteps ==
  ASSUME IInv, Receive \/ ReadHello \/ EndSession \/ UNCHANGED vars
  PROVE  IInv'
<1> USE DEF IInv
<1>1. TypeOK'
  <2>1. CASE Receive
    BY <2>1 DEF Receive, TypeOK
  <2>2. CASE ReadHello
    BY <2>2 DEF ReadHello, TypeOK
  <2>3. CASE EndSession
    BY <2>3 DEF EndSession, TypeOK
  <2>4. CASE UNCHANGED vars
    BY <2>4 DEF vars, TypeOK
  <2>. QED BY <2>1, <2>2, <2>3, <2>4
<1>2. UNCHANGED <<auth, authType, log>>
  BY DEF Receive, ReadHello, EndSession, vars
<1>. QED
  BY <1>1, <1>2
  DEF AuthBound, ReleaseClearsAuth, Released, AuthorizeBeforeExecute,
      NoUseAfterRelease

LEMMA ProcessStep ==
  ASSUME IInv, Process
  PROVE  IInv'
<1> USE DEF IInv
<1>1. PICK az, ex, ac, pre, pan \in BOOLEAN :
        /\ log' = Append(log, Handle(Head(buf), az, ex, ac, pre, pan))
        /\ IF Head(buf) = "close-session" THEN CloseSession(az)
           ELSE UNCHANGED <<auth, tacConn>>
  BY DEF Process
<1> DEFINE hd == Head(buf)
           rec == Handle(hd, az, ex, ac, pre, pan)
<1>2. hd \in Msgs /\ buf # <<>>
  BY DEF Process, TypeOK
<1>3. rec \in Records /\ rec.msg = hd
  BY <1>2, HandleType DEF hd, rec
<1>4. /\ log' = Append(log, rec)
      /\ Len(log') = Len(log) + 1
      /\ DOMAIN log' = 1..Len(log) + 1
      /\ log'[Len(log) + 1] = rec
      /\ \A i \in DOMAIN log : log'[i] = log[i]
  BY <1>1, <1>3, AppendProperties DEF TypeOK
<1>5. UNCHANGED authType
  BY DEF Process
<1>6. AuthBound' /\ (auth' \in {"tacacs", "local", "nil"})
      /\ (tacConn' \in {"open", "closed", "none"})
  <2>1. CASE hd = "close-session"
    <3>1. CloseSession(az)
      BY <1>1, <2>1
    <3>. QED BY <3>1, <1>5 DEF AuthBound, CloseSession, TypeOK
  <2>2. CASE hd # "close-session"
    <3>1. UNCHANGED <<auth, tacConn>>
      BY <1>1, <2>2
    <3>. QED BY <3>1, <1>5 DEF AuthBound, TypeOK
  <2>. QED BY <2>1, <2>2
<1>7. TypeOK'
  <2>1. log' \in Seq(Records)
    BY <1>3, <1>4 DEF TypeOK
  <2>2. buf' \in Seq(Msgs)
    BY <1>2 DEF Process, TypeOK
  <2>. QED BY <2>1, <2>2, <1>5, <1>6 DEF Process, TypeOK
<1>8. AuthorizeBeforeExecute'
  <2>1. rec.msg \in AAAOps => (rec.executed => rec.authorized)
                            /\ (rec.accounted => rec.executed)
    BY <1>2, <1>3, HandleGate
  <2>. QED BY <1>4, <2>1 DEF AuthorizeBeforeExecute
<1>9. ReleaseClearsAuth'
  <2>1. CASE Released
    <3>1. auth = "nil"
      BY <2>1 DEF ReleaseClearsAuth
    <3>2. CASE hd = "close-session"
      <4>1. CloseSession(az)
        BY <1>1, <3>2
      <4>. QED BY <2>1, <3>1, <4>1 DEF CloseSession, ReleaseClearsAuth
    <3>3. CASE hd # "close-session"
      <4>1. UNCHANGED auth
        BY <3>3, <1>1
      <4>. QED BY <3>1, <4>1 DEF ReleaseClearsAuth
    <3>. QED BY <3>2, <3>3
  <2>2. CASE ~Released
    <3>1. SUFFICES ASSUME Released' PROVE auth' = "nil"
      BY DEF ReleaseClearsAuth
    <3>2. authType = "tacacs" /\ hd = "close-session" /\ rec.authorized
      BY <2>2, <3>1, <1>3, <1>4, <1>5 DEF Released
    <3>3. az /\ auth # "nil"
      BY <3>2, HandleClose
    <3>4. CloseSession(az)
      BY <1>1, <3>2
    <3>. QED BY <3>2, <3>3, <3>4 DEF CloseSession
  <2>. QED BY <2>1, <2>2
<1>10. NoUseAfterRelease'
  <2>1. SUFFICES ASSUME NEW i \in DOMAIN log', NEW j \in DOMAIN log',
                        i < j, authType' = "tacacs",
                        log'[i].msg = "close-session", log'[i].authorized
                 PROVE  ~(log'[j].msg \in AAAOps /\ log'[j].authorized)
    BY DEF NoUseAfterRelease
  <2>2. CASE j \in DOMAIN log
    <3>1. i \in DOMAIN log
      BY <2>1, <2>2, <1>4 DEF TypeOK
    <3>. QED BY <2>1, <2>2, <3>1, <1>4, <1>5 DEF NoUseAfterRelease
  <2>3. CASE j = Len(log) + 1
    <3>1. i \in DOMAIN log /\ log'[i] = log[i]
      BY <2>1, <2>3, <1>4 DEF TypeOK
    <3>2. Released
      BY <2>1, <3>1, <1>5 DEF Released
    <3>3. auth = "nil"
      BY <3>2 DEF ReleaseClearsAuth
    <3>4. hd \in AAAOps => ~rec.authorized
      BY <3>3, HandleNil
    <3>. QED BY <2>3, <3>4, <1>3, <1>4
  <2>. QED BY <2>2, <2>3, <1>4 DEF TypeOK
<1>. QED BY <1>6, <1>7, <1>8, <1>9, <1>10

LEMMA IInvStep == IInv /\ [Next]_vars => IInv'
BY OtherSteps, ProcessStep DEF Next

(* Every reachable state of a session is well typed. *)
THEOREM TypeCorrect == Spec => []TypeOK
<1>1. Spec => []IInv
  BY InitIInv, IInvStep, PTL DEF Spec
<1>. QED BY <1>1, PTL DEF IInv

(***************************************************************************)
(* The AAA gate of withAuth and the gated handlers, for every client:      *)
(* an AAA-gated RPC is executed only after Authorize agreed, and accounted *)
(* only after it was executed.                                             *)
(***************************************************************************)
THEOREM AuthorizeBeforeExecuteTheorem == Spec => []AuthorizeBeforeExecute
BY InitIInv, IInvStep, PTL DEF Spec, IInv

(***************************************************************************)
(* close-session with TACACS+ releases the principal for good: no later    *)
(* AAA-gated RPC of the session is authorized.                             *)
(***************************************************************************)
THEOREM NoUseAfterReleaseTheorem == Spec => []NoUseAfterRelease
BY InitIInv, IInvStep, PTL DEF Spec, IInv
=============================================================================
