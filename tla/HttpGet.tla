------------------------------ MODULE HttpGet -------------------------------
(***************************************************************************)
(* The HTTP client (components/net/httpsclient/src/httpsclient.c): the loop*)
(* of http_get_with_callback and the parser http_parse, which finds the    *)
(* body in what the socket returns, however the connection cuts it up.     *)
(*                                                                         *)
(* Abstractions.  A response is a row of tokens, each one unit of the      *)
(* receive buffer: header lines, chunk sizes, CR, LF and the bytes of the  *)
(* body by their number.  What is in the buffer and not yet parsed is      *)
(* always a piece of the response, from `at' to `got'.  A line fits into   *)
(* the buffer.  A server sends a prefix of a well-formed response; cookies,*)
(* redirects and the status code, which the client does not look at, and   *)
(* TLS are left out.                                                       *)
(***************************************************************************)
EXTENDS Integers, Sequences, FiniteSets

Seqs == INSTANCE SequencesExt

CONSTANTS
  RecvMax,   \* FIELD_HTTP_RECV_BUF_MAX_LEN
  ChunkLen,  \* the server's longest chunk
  Lengths    \* the lengths of the bodies a server sends

Modes == {"length", "chunked", "close"}  \* how the end of the body is told

ASSUME HttpAssumption ==
  /\ RecvMax \in Nat /\ RecvMax >= 3
  /\ ChunkLen \in Nat \ {0}
  /\ Lengths \subseteq Nat

VARIABLES
  response,  \* the response of this connection: how it ends, and its length
  parser,    \* parse_state, the tokens parsed, remain_size (-1: not known)
  got,       \* the tokens received
  step,      \* what http_get_with_callback does next
  any        \* recv_len > 0

http == <<response, parser, got, step, any>>

Token(kind, n) == [kind |-> kind, n |-> n]
CrLf == <<Token("cr", 0), Token("lf", 0)>>
Bytes(from, to) == [k \in 1..(to - from + 1) |-> Token("byte", from + k - 1)]

(* The chunk that starts at byte b of n, and the chunk of size 0.          *)
Chunk(b, n) ==
  LET e == IF b + ChunkLen - 1 < n THEN b + ChunkLen - 1 ELSE n
  IN  <<Token("size", e - b + 1)>> \o CrLf \o Bytes(b, e) \o CrLf
Chunks(n) ==
  Seqs!FlattenSeq([c \in 1..((n + ChunkLen - 1) \div ChunkLen) |-> Chunk((c - 1) * ChunkLen + 1, n)])
    \o Chunk(n + 1, n)

Responses == [mode : Modes, length : Lengths]
Wires == [r \in Responses |->
  <<Token("line", 0)>> \o CrLf \o CrLf
    \o (IF r.mode = "chunked" THEN Chunks(r.length) ELSE Bytes(1, r.length))]

Wire == Wires[response]
Chunked == response.mode = "chunked"

HttpTypeOK ==
  /\ response \in Responses
  /\ got \in 0..Len(Wire)
  /\ parser \in [state : {"header", "body"}, at : 0..got, remain : -1..response.length]
  /\ step \in {"read", "parse", "end", "error", "closed", "done"}
  /\ any \in BOOLEAN

(* No connection: httpinfo_delete.                                         *)
Idle ==
  [response |-> [mode |-> "close", length |-> CHOOSE n \in Lengths : TRUE],
   parser |-> [state |-> "header", at |-> 0, remain |-> 0]]

HttpInit ==
  /\ response = Idle.response /\ parser = Idle.parser
  /\ got = 0 /\ step = "done" /\ any = FALSE

Disconnect ==
  /\ response' = Idle.response /\ parser' = Idle.parser
  /\ got' = 0 /\ step' = "done" /\ any' = FALSE

(* httpinfo_new, http_read_init and the request of an attempt.             *)
Connect(r) ==
  /\ response' = r
  /\ parser' = [state |-> "header", at |-> 0, remain |-> 0]
  /\ got' = 0 /\ step' = "read" /\ any' = FALSE

-----------------------------------------------------------------------------
(* https_read, into what is left of the buffer.                            *)
Unparsed == got - parser.at

Read ==
  /\ step = "read"
  /\ \E n \in 1..(RecvMax - Unparsed) : got + n <= Len(Wire) /\ got' = got + n
  /\ step' = "parse"
  /\ UNCHANGED <<response, parser, any>>

(* The peer closes the connection, which is no error, or the socket fails. *)
ReadFails ==
  /\ step = "read"
  /\ step' \in {"closed", "error"}
  /\ UNCHANGED <<response, parser, got, any>>

-----------------------------------------------------------------------------
(* http_parse, one action for each way through its loop.                   *)

(* strstr(p1, "\r\n"): the tokens before the first line end, if it is here.*)
LineEnds == {n \in 0..(Unparsed - 2) : SubSeq(Wire, parser.at + n + 1, parser.at + n + 2) = CrLf}
LineLen == CHOOSE n \in LineEnds : \A m \in LineEnds : n <= m
InHeader == step = "parse" /\ parser.state = "header"
InBody == step = "parse" /\ parser.state = "body"
AtSize == InBody /\ Chunked /\ parser.remain = -1

(* What is there of the line is kept in the buffer.                        *)
PartOfLine ==
  /\ InHeader \/ AtSize
  /\ LineEnds = {}
  /\ step' = "read"
  /\ UNCHANGED <<response, parser, got, any>>

HeaderLine ==
  /\ InHeader /\ LineEnds # {} /\ LineLen > 0
  /\ parser' = [parser EXCEPT !.at = @ + LineLen + 2]
  /\ UNCHANGED <<response, got, step, any>>

HeaderEnd ==
  /\ InHeader /\ LineEnds # {} /\ LineLen = 0
  /\ parser' = [state |-> "body", at |-> parser.at + 2,
                remain |-> IF response.mode = "length" /\ response.length > 0
                           THEN response.length ELSE -1]
  /\ UNCHANGED <<response, got, step, any>>

(* The number in the line, whatever white space is before it (strtol); 0   *)
(* ends the body.                                                          *)
SizesHere == {Wire[parser.at + k].n : k \in {j \in 1..LineLen : Wire[parser.at + j].kind = "size"}}

SizeLine ==
  /\ AtSize /\ LineEnds # {}
  /\ \E n \in IF SizesHere = {} THEN {0} ELSE SizesHere :
       /\ parser' = [parser EXCEPT !.at = @ + LineLen + 2, !.remain = n]
       /\ step' = IF n > 0 THEN "parse" ELSE "end"
  /\ UNCHANGED <<response, got, any>>

(* The line end after a chunk is skipped if it is here with more behind it;*)
(* otherwise the buffer is emptied.                                        *)
ChunkGap ==
  /\ InBody /\ Chunked /\ parser.remain = 0
  /\ parser' = [parser EXCEPT !.remain = -1,
       !.at = IF Unparsed > 2 /\ SubSeq(Wire, @ + 1, @ + 2) = CrLf THEN @ + 2 ELSE got]
  /\ UNCHANGED <<response, got, step, any>>

Parse == PartOfLine \/ HeaderLine \/ HeaderEnd \/ SizeLine \/ ChunkGap

(* The bytes handed to the callback, where the parser goes on, and what    *)
(* comes next.                                                             *)
Delivers == InBody /\ (parser.remain > 0 \/ (~Chunked /\ parser.remain = -1))
MoreFollows == parser.remain > 0 /\ parser.remain < Unparsed
Delivered == SubSeq(Wire, parser.at + 1, parser.at + (IF MoreFollows THEN parser.remain ELSE Unparsed))

AfterDeliveryNoSkip ==  \* wrong variant: the line end of a chunk is left
  LET two == Chunked /\ Unparsed - parser.remain >= 2
  IN  IF MoreFollows
      THEN [at |-> parser.at + parser.remain,
            remain |-> IF two THEN -1 ELSE parser.remain,
            step |-> IF two THEN "parse" ELSE "error"]
      ELSE [at |-> got,
            remain |-> IF parser.remain > 0 THEN parser.remain - Unparsed ELSE -1,
            step |-> IF ~Chunked /\ parser.remain = Unparsed THEN "end" ELSE "read"]

(* Behind a chunk there are two tokens to skip; one alone is an error.     *)
AfterDelivery ==
  LET two == Chunked /\ Unparsed - parser.remain >= 2
  IN  IF MoreFollows
      THEN [at |-> parser.at + parser.remain + (IF two THEN 2 ELSE 0),
            remain |-> IF two THEN -1 ELSE parser.remain,
            step |-> IF two THEN "parse" ELSE "error"]
      ELSE [at |-> got,
            remain |-> IF parser.remain > 0 THEN parser.remain - Unparsed ELSE -1,
            step |-> IF ~Chunked /\ parser.remain = Unparsed THEN "end" ELSE "read"]

Deliver ==
  /\ Delivers
  /\ parser' = [parser EXCEPT !.at = AfterDelivery.at, !.remain = AfterDelivery.remain]
  /\ step' = AfterDelivery.step
  /\ any' = (any \/ Delivered # <<>>)
  /\ UNCHANGED <<response, got>>

(* How much of the body the parser has gone through.                       *)
Passed == Cardinality({k \in 1..parser.at : Wire[k].kind = "byte"})
=============================================================================
