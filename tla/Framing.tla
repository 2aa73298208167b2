------------------------------ MODULE Framing ------------------------------
(***************************************************************************)
(* Inbound message framing of a session: SplitAt and trimInput             *)
(* (src/netconf/server/handler.go) driven by the bufio.Scanner that        *)
(* SessionHandler reads the SSH channel with.                              *)
(*                                                                         *)
(* A client sends each message either ended by ]]>]]> (base:1.0) or       *)
(* chunked (\n#<len>\n<body>\n##\n), and may close the channel in the     *)
(* middle of a last message.  The channel hands the bytes to the scanner   *)
(* in reads of any size.  The scanner keeps the bytes not yet scanned in   *)
(* a buffer of at most MaxToken bytes (bufio.MaxScanTokenSize, 64 KiB);    *)
(* before each read it asks SplitAt whether the buffer holds a token.      *)
(* Bytes are one-character strings.                                        *)
(***************************************************************************)
EXTENDS Naturals, Sequences, SequencesExt

CONSTANTS
  Scripts,    \* what a client may send: a sequence of pieces
  MaxToken    \* the scanner's maximum token size

(* The end-of-message marker of base:1.0 framing. *)
RPCDelimiter == <<"]", "]", ">", "]", "]", ">">>

(* The end-of-chunks marker of chunked framing. *)
ChunkDelimiter == <<"\n", "#", "#", "\n">>

(* Decimal digits of n, most significant first. *)
Digit == <<"0", "1", "2", "3", "4", "5", "6", "7", "8", "9">>
Decimal[n \in Nat] ==
  IF n < 10 THEN <<Digit[n + 1]>> ELSE Decimal[n \div 10] \o <<Digit[(n % 10) + 1]>>

(* The header of a message sent as a single chunk. *)
ChunkHeader(body) == <<"\n", "#">> \o Decimal[Len(body)] \o <<"\n">>

(***************************************************************************)
(* A piece is a message body and how the client ends it: "legacy"          *)
(* (]]>]]>), "chunked", or "eof" (the channel closes after the body).      *)
(***************************************************************************)
Styles == {"legacy", "chunked", "eof"}

Frame(p) ==
  CASE p.style = "legacy" -> p.body \o RPCDelimiter
    [] p.style = "chunked" -> ChunkHeader(p.body) \o p.body \o ChunkDelimiter
    [] OTHER -> p.body

(* What the spec calls the message: the bytes before its end marker. *)
Content(p) == IF p.style = "chunked" THEN ChunkHeader(p.body) \o p.body ELSE p.body

ASSUME MaxTokenAssumption == MaxToken \in Nat \ {0}

ASSUME ScriptsAssumption ==
  \A s \in Scripts :
    /\ s \in Seq([body : Seq(STRING), style : Styles])
    /\ \A i \in DOMAIN s : s[i].style = "eof" => i = Len(s)

-----------------------------------------------------------------------------
(* strings.Index: the 0-based position of the first sep in data, or -1. *)
Index(data, sep) ==
  LET at == {i \in 0..(Len(data) - Len(sep)) :
               SubSeq(data, i + 1, i + Len(sep)) = sep}
  IN  IF at = {} THEN -1 ELSE Min(at)

(* strings.Trim(s, c) for a one-byte cutset. *)
TrimByte(s, c) ==
  LET kept == {i \in DOMAIN s : s[i] # c}
  IN  IF kept = {} THEN <<>> ELSE SubSeq(s, Min(kept), Max(kept))

trimInput(s) == TrimByte(TrimByte(TrimByte(s, "\n"), "\r"), " ")

(* SplitAt's "no token": advance 0, token nil. *)
NoToken == [advance |-> 0, token |-> <<>>, found |-> FALSE]

Token(adv, tok) == [advance |-> adv, token |-> tok, found |-> TRUE]

(* A SplitAt that leaves out the final "return the data at EOF". *)
SplitAtDropsRemainder(data, atEOF) ==
  IF (atEOF /\ data = <<>>) \/ trimInput(data) = <<>> THEN NoToken
  ELSE LET i == Index(data, RPCDelimiter)
           j == Index(data, ChunkDelimiter)
       IN  IF i >= 0 THEN Token(i + Len(RPCDelimiter), SubSeq(data, 1, i))
           ELSE IF j >= 0 THEN Token(j + Len(ChunkDelimiter), SubSeq(data, 1, j))
           ELSE NoToken

SplitAt(data, atEOF) ==
  IF (atEOF /\ data = <<>>) \/ trimInput(data) = <<>> THEN NoToken
  ELSE LET i == Index(data, RPCDelimiter)
           j == Index(data, ChunkDelimiter)
       IN  IF i >= 0 THEN Token(i + Len(RPCDelimiter), SubSeq(data, 1, i))
           ELSE IF j >= 0 THEN Token(j + Len(ChunkDelimiter), SubSeq(data, 1, j))
           ELSE IF atEOF THEN Token(Len(data), data)
           ELSE NoToken

-----------------------------------------------------------------------------
VARIABLES
  script,   \* the pieces the client sends
  stream,   \* the bytes sent and not yet read by the scanner
  buf,      \* the scanner's buffer: bytes read and not yet consumed
  eof,      \* the scanner's err is io.EOF
  tokens,   \* the tokens Scan has returned, in order
  stop      \* "scanning", or why Scan returned false: "eof", "toolong"

vars == <<script, stream, buf, eof, tokens, stop>>

TypeOK ==
  /\ stream \in Seq(STRING)
  /\ buf \in Seq(STRING)
  /\ Len(buf) <= MaxToken
  /\ eof \in BOOLEAN
  /\ tokens \in Seq(Seq(STRING))
  /\ stop \in {"scanning", "eof", "toolong"}

Init ==
  /\ script \in Scripts
  /\ stream = FlattenSeq([i \in DOMAIN script |-> Frame(script[i])])
  /\ buf = <<>>
  /\ eof = FALSE
  /\ tokens = <<>>
  /\ stop = "scanning"

(***************************************************************************)
(* Scan calls SplitAt on the buffer (at EOF even when it is empty) and     *)
(* returns the token it finds, consuming advance bytes.                    *)
(***************************************************************************)
Split ==
  /\ stop = "scanning"
  /\ buf # <<>> \/ eof
  /\ LET r == SplitAt(buf, eof)
     IN  /\ r.found
         /\ tokens' = Append(tokens, r.token)
         /\ buf' = SubSeq(buf, r.advance + 1, Len(buf))
  /\ UNCHANGED <<script, stream, eof, stop>>

(* No token: at EOF Scan returns false. *)
EndOfInput ==
  /\ stop = "scanning"
  /\ eof
  /\ ~SplitAt(buf, TRUE).found
  /\ stop' = "eof"
  /\ UNCHANGED <<script, stream, buf, eof, tokens>>

(* A token limit checked one byte early. *)
TooLongOffByOne ==
  /\ stop = "scanning"
  /\ ~eof
  /\ ~SplitAt(buf, FALSE).found
  /\ Len(buf) >= MaxToken - 1
  /\ stop' = "toolong"
  /\ UNCHANGED <<script, stream, buf, eof, tokens>>

(* No token and a full buffer: Scan fails with ErrTooLong. *)
TooLong ==
  /\ stop = "scanning"
  /\ ~eof
  /\ ~SplitAt(buf, FALSE).found
  /\ Len(buf) = MaxToken
  /\ stop' = "toolong"
  /\ UNCHANGED <<script, stream, buf, eof, tokens>>

(* No token: Scan reads from the channel, some bytes or EOF. *)
Read ==
  /\ stop = "scanning"
  /\ ~eof
  /\ ~SplitAt(buf, FALSE).found
  /\ Len(buf) < MaxToken
  /\ \/ /\ stream = <<>>
        /\ eof' = TRUE
        /\ UNCHANGED <<stream, buf>>
     \/ \E k \in 1..(MaxToken - Len(buf)) :
          /\ k <= Len(stream)
          /\ buf' = buf \o SubSeq(stream, 1, k)
          /\ stream' = SubSeq(stream, k + 1, Len(stream))
          /\ UNCHANGED eof
  /\ UNCHANGED <<script, tokens, stop>>

Next == Split \/ EndOfInput \/ TooLong \/ Read

Spec == Init /\ [][Next]_vars

-----------------------------------------------------------------------------
(* The messages the spec says the splitter yields for the script. *)
Expected == [i \in DOMAIN script |-> Content(script[i])]

(***************************************************************************)
(* Framing round trip (spec, Session & Framing Manager): whatever the read *)
(* boundaries, Scan returns the sent messages in order, each exactly, and  *)
(* all of them once the client's EOF was scanned.                          *)
(***************************************************************************)
TokensMatchFrames ==
  /\ IsPrefix(tokens, Expected)
  /\ stop = "eof" => tokens = Expected

(***************************************************************************)
(* The scanner's token limit (bufio.Scanner, MaxToken): Scan gives up with *)
(* ErrTooLong only on a message whose frame is longer than the buffer; a   *)
(* frame of exactly MaxToken bytes is still split.                         *)
(***************************************************************************)
TooLongOnlyForOversizedFrame ==
  stop = "toolong" =>
    /\ Len(tokens) < Len(script)
    /\ Len(Frame(script[Len(tokens) + 1])) > MaxToken
=============================================================================
