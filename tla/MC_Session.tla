----------------------------- MODULE MC_Session -----------------------------
(* Client scripts for model checking module Session. *)
EXTENDS Session

(* The message kinds a script is drawn from: one of each way process     *)
(* reacts to a message.                                                  *)
MC_Kinds ==
  {"hello", "noid", "noop", "get", "commit", "close-session", "sonic-rpc",
   "other"}

(* Every script of at most three messages. *)
MC_Scripts == UNION {[1..n -> MC_Kinds] : n \in 0..3}
=============================================================================
