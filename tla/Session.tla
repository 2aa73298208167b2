------------------------------ MODULE Session ------------------------------
(***************************************************************************)
(* One NETCONF session: SessionHandler, process, handleRequest, withAuth   *)
(* and doRecover (src/netconf/server/handler.go), with the authenticator   *)
(* bound at login by authenticate (src/netconf/main/main.go).              *)
(*                                                                         *)
(* The session reads framed messages through a bufio.Scanner: one Read of  *)
(* the SSH channel may bring several messages into the scanner's buffer,   *)
(* and the scanner hands out what it buffered even after the channel was  *)
(* closed.  A message is abstracted to its kind (the RPC it carries, or    *)
(* how it is malformed); framing itself is the subject of module Framing.  *)
(* The AAA server's decisions and the backend's results are free choices.  *)
(***************************************************************************)
EXTENDS Naturals, Sequences

CONSTANTS
  Scripts   \* the message sequences a client may send, ending in EOF

(* RPCs that go through withAuth in handleRequest. *)
WithAuthOps == {"get-schema", "commit", "close-session"}

(* RPCs whose handlers do their own Authorize/Account after a precheck. *)
GatedOps ==
  {"get", "get-config", "edit-config", "lock", "unlock", "copy-config"}

(* RPCs handled without the authenticator, and the unknown one. *)
UngatedOps == {"sonic-rpc", "other"}

Ops == WithAuthOps \cup GatedOps \cup UngatedOps

(***************************************************************************)
(* Message kinds: a valid client <hello>, text that is not XML, XML whose  *)
(* root carries no message-id, an <rpc> with no operation child (the      *)
(* typeNode of handleRequest is nil), and the RPCs themselves.            *)
(***************************************************************************)
Msgs == {"hello", "junk", "noid", "noop"} \cup Ops

ASSUME ScriptsAssumption == Scripts \subseteq Seq(Msgs)

VARIABLES
  inbox,     \* the client's messages not yet read from the channel
  buf,       \* messages read into the scanner's buffer, not yet scanned
  closed,    \* the server has called s.Close()
  phase,     \* "hello", "loop" (SessionHandler's for loop) or "ended"
  helloOK,   \* readCapabilities accepted the client hello
  authType,  \* context "auth-type", set at login
  auth,      \* context "auth": "tacacs", "local" or "nil"
  tacConn,   \* the TACACS+ connection: "open", "closed" or "none"
  log        \* one record per message process handled

vars == <<inbox, buf, closed, phase, helloOK, authType, auth, tacConn, log>>

(* What process did for one message. *)
Records ==
  [msg : Msgs, authorized : BOOLEAN, executed : BOOLEAN, accounted : BOOLEAN,
   frames : Nat]

TypeOK ==
  /\ inbox \in Seq(Msgs)
  /\ buf \in Seq(Msgs)
  /\ closed \in BOOLEAN
  /\ phase \in {"hello", "loop", "ended"}
  /\ helloOK \in BOOLEAN
  /\ authType \in {"tacacs", "local"}
  /\ auth \in {"tacacs", "local", "nil"}
  /\ tacConn \in {"open", "closed", "none"}
  /\ log \in Seq(Records)

(***************************************************************************)
(* authenticate: with TACACS+ enabled in AAA the session gets a connected  *)
(* TacacsAuthenticator, otherwise the local one.  A failed login opens no  *)
(* session at all.                                                         *)
(***************************************************************************)
Init ==
  /\ inbox \in Scripts
  /\ buf = <<>>
  /\ closed = FALSE
  /\ phase = "hello"
  /\ helloOK = FALSE
  /\ authType \in {"tacacs", "local"}
  /\ auth = authType
  /\ tacConn = IF authType = "tacacs" THEN "open" ELSE "none"
  /\ log = <<>>

(***************************************************************************)
(* A Read of the channel by the scanner: some of the messages the client   *)
(* sent arrive together.  A closed channel reads EOF.                      *)
(***************************************************************************)
Receive ==
  /\ ~closed
  /\ inbox # <<>>
  /\ \E k \in 1..Len(inbox) :
       /\ buf' = buf \o SubSeq(inbox, 1, k)
       /\ inbox' = SubSeq(inbox, k + 1, Len(inbox))
  /\ UNCHANGED <<closed, phase, helloOK, authType, auth, tacConn, log>>

(* A Scan that ignores the closed channel: it waits for the client's EOF. *)
AtEOFIgnoringClose == buf = <<>> /\ inbox = <<>>

(* The scanner has nothing left and the channel is at EOF. *)
AtEOF == buf = <<>> /\ (closed \/ inbox = <<>>)

(***************************************************************************)
(* The first Scan and readCapabilities.  At EOF the text is "" and fails.  *)
(* On failure an error is written and the channel closed, but the handler  *)
(* does not return: it goes on to its loop.                                *)
(***************************************************************************)
ReadHello ==
  /\ phase = "hello"
  /\ buf # <<>> \/ AtEOF
  /\ LET ok == buf # <<>> /\ Head(buf) = "hello"
     IN /\ helloOK' = ok
        /\ closed' = (closed \/ ~ok)
  /\ buf' = IF buf = <<>> THEN buf ELSE Tail(buf)
  /\ phase' = "loop"
  /\ UNCHANGED <<inbox, authType, auth, tacConn, log>>

(* The loop's Scan returns false: SessionHandler returns. *)
EndSession ==
  /\ phase = "loop"
  /\ AtEOF
  /\ phase' = "ended"
  /\ UNCHANGED <<inbox, buf, closed, helloOK, authType, auth, tacConn, log>>

(***************************************************************************)
(* The outcome of one message.  A panic inside process is recovered by     *)
(* doRecover, which writes an error frame; process then returns "" and     *)
(* the loop writes that as a second, empty frame.                          *)
(***************************************************************************)
Outcome(m, az, ex, ac, panics) ==
  [msg |-> m, authorized |-> az, executed |-> ex, accounted |-> ac,
   frames |-> IF panics THEN 2 ELSE 1]

(***************************************************************************)
(* withAuth and the handlers that follow its pattern: the authenticator is *)
(* taken from the context (a panic when close-session cleared it), then    *)
(* Authorize, the operation, Account.  A refused Authorize runs nothing, a *)
(* failed operation is not accounted.                                      *)
(***************************************************************************)
(* A withAuth that runs the operation whether Authorize agreed or not. *)
WithAuthNoAuthorize(m, az, ex, ac) ==
  IF auth = "nil" THEN Outcome(m, FALSE, FALSE, FALSE, TRUE)
  ELSE Outcome(m, az, ex, ex /\ ac, FALSE)

WithAuth(m, az, ex, ac) ==
  IF auth = "nil" THEN Outcome(m, FALSE, FALSE, FALSE, TRUE)
  ELSE Outcome(m, az, az /\ ex, az /\ ex /\ ac, FALSE)

(***************************************************************************)
(* close-session's operation: with TACACS+ the connection is closed and   *)
(* "auth" set to nil.  Account then runs on the closed authenticator.      *)
(***************************************************************************)
(* A close-session that disconnects but leaves "auth" in the context. *)
CloseSessionKeepsAuth(az) ==
  /\ auth' = auth
  /\ tacConn' = IF az /\ auth # "nil" /\ authType = "tacacs" THEN "closed"
                ELSE tacConn

CloseSession(az) ==
  /\ auth' = IF az /\ auth # "nil" /\ authType = "tacacs" THEN "nil" ELSE auth
  /\ tacConn' = IF az /\ auth # "nil" /\ authType = "tacacs" THEN "closed"
                ELSE tacConn

(* A get whose paths were authorized panics in innerGetHandler. *)
GetPanics(m, az, pan) == m \in {"get", "get-config"} /\ auth # "nil" /\ az /\ pan

(***************************************************************************)
(* handleRequest and the handler it dispatches to, for message kind m.     *)
(* The authorize, execute and account results, a precheck failure of a     *)
(* gated handler (no filter, wrong target, datastore locked, a parse       *)
(* error) and a panic while executing are chosen by the caller.  Only get  *)
(* and get-config panic while executing (filterJson, the YangSchemas       *)
(* lookup).                                                                *)
(***************************************************************************)
Handle(m, az, ex, ac, pre, pan) ==
  CASE m \in {"hello", "junk", "noid"} -> Outcome(m, FALSE, FALSE, FALSE, FALSE)
    [] m = "noop" -> Outcome(m, FALSE, FALSE, FALSE, TRUE)
    [] m = "sonic-rpc" -> Outcome(m, FALSE, ~pre, FALSE, FALSE)
    [] m = "other" -> Outcome(m, FALSE, FALSE, FALSE, FALSE)
    [] m \in {"commit", "close-session"} -> WithAuth(m, az, TRUE, ac)
    [] m = "get-schema" -> WithAuth(m, az, ex, ac)
    [] m \in GatedOps /\ pre -> Outcome(m, FALSE, FALSE, FALSE, FALSE)
    [] m \in GatedOps /\ ~pre /\ GetPanics(m, az, pan) ->
         Outcome(m, TRUE, FALSE, FALSE, TRUE)
    [] OTHER -> WithAuth(m, az, ex, ac)   \* the gated handlers past the precheck

(***************************************************************************)
(* One iteration of the loop: Scan, process (parse, message-id,            *)
(* handleRequest, the reply), writeResponse.                               *)
(***************************************************************************)
Process ==
  /\ phase = "loop"
  /\ buf # <<>>
  /\ \E az, ex, ac, pre, pan \in BOOLEAN :
       /\ log' = Append(log, Handle(Head(buf), az, ex, ac, pre, pan))
       /\ IF Head(buf) = "close-session" THEN CloseSession(az)
          ELSE UNCHANGED <<auth, tacConn>>
  /\ buf' = Tail(buf)
  /\ UNCHANGED <<inbox, closed, phase, helloOK, authType>>

Next == Receive \/ ReadHello \/ Process \/ EndSession

(* The server's steps are taken as long as they are enabled; the SSH       *)
(* channel delivers what the client sent.                                  *)
Spec == Init /\ [][Next]_vars /\ WF_vars(Next)

-----------------------------------------------------------------------------
(* The RPCs AAA-gated by withAuth or their own handler. *)
AAAOps == WithAuthOps \cup GatedOps

(***************************************************************************)
(* The AAA gate (withAuth and the gated handlers): an AAA-gated RPC runs   *)
(* its operation only after Authorize agreed, and is accounted only after *)
(* its operation succeeded.                                                *)
(***************************************************************************)
AuthorizeBeforeExecute ==
  \A i \in DOMAIN log :
    log[i].msg \in AAAOps =>
      /\ log[i].executed => log[i].authorized
      /\ log[i].accounted => log[i].executed

(***************************************************************************)
(* close-session with TACACS+ (handleRequest): once an authorized          *)
(* close-session has released the session's principal, no later AAA-gated *)
(* RPC of the session is authorized again on it.                           *)
(***************************************************************************)
NoUseAfterRelease ==
  \A i, j \in DOMAIN log :
    /\ i < j
    /\ authType = "tacacs"
    /\ log[i].msg = "close-session"
    /\ log[i].authorized
    => ~(log[j].msg \in AAAOps /\ log[j].authorized)

(***************************************************************************)
(* SessionHandler returns: once the client stops sending, or the server    *)
(* closed the channel after a bad hello, the loop drains what the scanner *)
(* buffered and ends.                                                      *)
(***************************************************************************)
SessionTerminates == <>(phase = "ended")

(***************************************************************************)
(* The spec (Session & Framing Manager): no RPC is processed without a    *)
(* valid client hello.  SessionHandler closes the channel after a bad      *)
(* hello but does not return.                                              *)
(***************************************************************************)
NoRpcWithoutHello == log # <<>> => helloOK

(***************************************************************************)
(* The spec (error taxonomy): every message that reaches the router gets   *)
(* exactly one reply.  doRecover writes one and the loop writes another.  *)
(***************************************************************************)
ExactlyOneReplyPerMessage == \A i \in DOMAIN log : log[i].frames = 1

=============================================================================
