---------------------------- MODULE MC_Framing ----------------------------
EXTENDS Framing

(* Message bodies up to two bytes, of text and newlines. *)
MC_Bodies == {<<>>, <<"x">>, <<"\n">>, <<"x", "x">>, <<"x", "\n">>}

(* Pieces of one framing style, then optionally an unterminated "x". *)
SameStyle(style) ==
  LET msgs == {[body |-> b, style |-> style] : b \in MC_Bodies}
      last == {<<>>, <<[body |-> <<"x">>, style |-> "eof"]>>}
  IN  {<<m>> \o t : m \in msgs, t \in last}
      \cup {<<m1, m2>> : m1, m2 \in msgs}

(* Every script of one or two messages in a single style. *)
MC_Scripts == SameStyle("legacy") \cup SameStyle("chunked")

(* A chunked and a base:1.0 message, in either order. *)
MC_MixedScripts ==
  {<<[body |-> b1, style |-> s1], [body |-> b2, style |-> s2]>> :
     b1, b2 \in {<<"x">>}, s1 \in {"legacy", "chunked"},
     s2 \in {"legacy", "chunked"}}

(* 8 bytes: a two-byte legacy body and an empty chunked body fill the   *)
(* buffer exactly; every other chunked frame is longer and cut.          *)
MC_MaxToken == 8

(* Room for two whole frames, so that both can sit in one buffer. *)
MC_MaxTokenTwoFrames == 24
=============================================================================
