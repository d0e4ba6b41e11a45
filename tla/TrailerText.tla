----------------------------- MODULE TrailerText ------------------------------
(***************************************************************************)
(* The text of a trailer frame: the status of a call, its message and its  *)
(* metadata as lines "name: value" (packages/runtime/src/web/codec/        *)
(* protocol_codec.ts trailerFrame and parse functions, frame_codec.ts).    *)
(*                                                                         *)
(* A text is a sequence of tokens, as large as the code tells them apart:  *)
(* a plain word, a space, a colon, a line break, a percent sign and a      *)
(* character outside of ASCII.                                             *)
(***************************************************************************)
EXTENDS Naturals, Sequences, SequencesExt

CONSTANTS
  Tokens,       \* of the messages of a server
  MaxLength,    \* of a message or a value, in tokens
  Statuses,     \* codes, as the decimal words the trailer holds
  TrailerNames, \* of the metadata of a backend, in lower case
  TrailerValues \* of that metadata

STATUS == "grpc-status"
MESSAGE == "grpc-message"

\* The escapes a message is written with, and the value of metadata that is bytes.
Escapes == {"%25", "%0D%0A", "%C3%A9"}
Binary == <<"binary">>

\* A server's text holds plain characters, and an escape is none of them; codes
\* and names are words.
ASSUME TrailerTextAssumption ==
  /\ Tokens \cap Escapes = {}
  /\ Statuses \cap {"SP", "%", "CRLF", "uni"} = {}
  /\ TrailerNames \cap {"SP", ":", "%", "CRLF", "uni"} = {}
  /\ TrailerValues \subseteq Seq(Tokens) \cup {Binary}

VARIABLES
  told,         \* the trailers a sender writes
  text,         \* the payload of the frame
  heard         \* what the reader makes of it

trailer == <<told, text, heard>>

Unread == [outcome |-> "unread"]
-----------------------------------------------------------------------------
(* Writing *)

\* Bytes that are no printable ASCII, and the percent sign, are escaped.
encodeGrpcMessage(s) ==
  [i \in DOMAIN s |-> CASE s[i] = "%" -> "%25"
                        [] s[i] = "CRLF" -> "%0D%0A"
                        [] s[i] = "uni" -> "%C3%A9"
                        [] OTHER -> s[i]]

Line(name, value) == <<name, ":", "SP">> \o encodeGrpcMessage(value) \o <<"CRLF">>

\* trailerRecord: the gateway passes on the metadata of the backend that is text.
trailerRecord(t) == t.value # Binary

\* [mutant] metadata may carry a status of its own
trailerFrameUnfiltered(t) ==
  Line(STATUS, <<t.status>>) \o Line(MESSAGE, t.message)
  \o (IF trailerRecord(t) THEN Line(t.name, t.value) ELSE <<>>)

\* trailerFrame and its encoding: metadata never names the status or the message.
trailerFrame(t) ==
  Line(STATUS, <<t.status>>) \o Line(MESSAGE, t.message)
  \o (IF t.name \in {STATUS, MESSAGE} \/ ~trailerRecord(t) THEN <<>> ELSE Line(t.name, t.value))

-----------------------------------------------------------------------------
(* Reading *)

\* trim: no space at either end.
Trim(s) ==
  LET solid == {i \in DOMAIN s : s[i] # "SP"}
  IN IF solid = {} THEN <<>> ELSE SubSeq(s, Min(solid), Max(solid))

\* Where the lines of one name begin; a line without a name is skipped.
LineStarts(s, name) ==
  {i \in DOMAIN s : /\ i = 1 \/ s[i - 1] = "CRLF"
                    /\ \E j \in (i + 1)..Len(s) :
                         /\ s[j] = ":"
                         /\ \A k \in i..(j - 1) : s[k] \notin {":", "CRLF"}
                         /\ Trim(SubSeq(s, i, j - 1)) = <<name>>}

\* decodeTrailers, of one name: <<>> or <<value>>.  A later line of a name
\* replaces an earlier one.
decodeTrailers(s, name) ==
  IF LineStarts(s, name) = {} THEN <<>>
  ELSE LET from == Max(LineStarts(s, name))
           ends == {j \in from..Len(s) : s[j] = "CRLF"}
           to == IF ends = {} THEN Len(s) ELSE Min(ends) - 1
           colon == Min({j \in from..to : s[j] = ":"})
       IN <<Trim(SubSeq(s, colon + 1, to))>>

\* decodeURIComponent; a bare percent sign makes it throw.
decodeGrpcMessage(s) ==
  [i \in DOMAIN s |-> CASE s[i] = "%25" -> "%"
                        [] s[i] = "%0D%0A" -> "CRLF"
                        [] s[i] = "%C3%A9" -> "uni"
                        [] OTHER -> s[i]]

\* Whether a trailer holds a status; without one parseGrpcStatus throws.
parseGrpcStatus(encoded) == \E code \in Statuses : encoded = <<<<code>>>>

\* decode of the protocol codec, for a trailer frame.
Decode(s) ==
  LET status == decodeTrailers(s, STATUS)
      message == decodeTrailers(s, MESSAGE)
      words == IF message = <<>> THEN <<>> ELSE message[1]
  IN IF ~parseGrpcStatus(status) \/ \E i \in DOMAIN words : words[i] = "%"
     THEN [outcome |-> "error"]
     ELSE [outcome |-> "read", status |-> status[1][1],
           message |-> decodeGrpcMessage(words),
           value |-> decodeTrailers(s, told.name)]

-----------------------------------------------------------------------------
Words == UNION {[1..n -> Tokens] : n \in 0..MaxLength}

InitTrailer ==
  /\ told = [status |-> "none", message |-> <<>>, name |-> STATUS, value |-> <<>>]
  /\ text = <<>> /\ heard = Unread

\* A server ends a call; the backend may have named its metadata anything.
Tell ==
  /\ text = <<>>
  /\ told' \in [status : Statuses, message : Words, name : TrailerNames, value : TrailerValues]
  /\ text' = trailerFrame(told')
  /\ UNCHANGED heard

Hear ==
  /\ text # <<>> /\ heard = Unread
  /\ heard' = Decode(text)
  /\ UNCHANGED <<told, text>>

TrailerNext == Tell \/ Hear
-----------------------------------------------------------------------------
(* Properties *)

\* Whatever the message and the metadata say, the reader gets the status the
\* server set and the server's message, but for the spaces around it: no text
\* of a server forges a status or spoils the trailer.  Metadata arrives if it is
\* text, and as it was escaped.
StatusKept ==
  heard # Unread =>
    /\ heard.outcome = "read"
    /\ heard.status = told.status
    /\ heard.message = Trim(told.message)
    /\ told.name \notin {STATUS, MESSAGE} =>
         heard.value = IF told.value = Binary THEN <<>> ELSE <<encodeGrpcMessage(Trim(told.value))>>
=============================================================================
