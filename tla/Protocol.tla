------------------------------- MODULE Protocol -------------------------------
(***************************************************************************)
(* internal/protocol: the control messages and their frames.               *)
(*                                                                         *)
(* A frame is two writes, the length and the body, and therefore two cells *)
(* of the stream; either may be the last that arrives.  A body is the      *)
(* message and its size; one that is not the encoding of a message (a byte *)
(* too many, a field that does not fit) has the type "garbage".            *)
(***************************************************************************)
EXTENDS Naturals, Sequences, SequencesExt, Policy

CONSTANT MinTokenBytes   \* 32

Version1 == 1

ErrorCodes == {"unauthenticated", "forbidden-destination", "resolution-failed",
               "address-rejected", "dial-failed", "limit-exceeded", "malformed",
               "unsupported-version", "internal"}

\* Every message has all fields; those its type does not use are empty.  A token
\* is the secret and its length.
Blank == [type |-> "garbage", version |-> 0, token |-> [secret |-> "none", size |-> 0],
          destination |-> NoDestination, code |-> "none"]

Hello(token) == [Blank EXCEPT !.type = "HELLO", !.version = Version1, !.token = token]

HelloOK == [Blank EXCEPT !.type = "HELLO_OK", !.version = Version1]

Open(destination) == [Blank EXCEPT !.type = "OPEN", !.destination = destination]

OpenOK == [Blank EXCEPT !.type = "OPEN_OK"]

OpenError(code) == [Blank EXCEPT !.type = "OPEN_ERROR", !.code = code]

Supported(version) == version = Version1

Validate(m) ==
  CASE m.type = "HELLO" -> Supported(m.version) /\ m.token.size >= MinTokenBytes
    [] m.type = "HELLO_OK" -> Supported(m.version)
    [] m.type = "OPEN" -> m.destination # NoDestination /\ m.destination.port = AllowedPort
    [] m.type = "OPEN_OK" -> TRUE
    [] m.type = "OPEN_ERROR" -> m.code \in ErrorCodes
    [] OTHER -> FALSE

ErrorCodeFor(reason) ==
  CASE reason = "resolution-failed" -> "resolution-failed"
    [] reason = "non-public-address" -> "address-rejected"
    [] reason \in {"malformed-authority", "ip-literal", "port-not-allowed", "not-allowlisted"}
         -> "forbidden-destination"
    [] OTHER -> "internal"

\* The bytes of marshalMessage's result.
BodySize(m) ==
  CASE m.type = "HELLO" -> 2 + m.token.size
    [] m.type = "HELLO_OK" -> 2
    [] m.type = "OPEN" -> 5 + Len(m.destination.host)
    [] m.type = "OPEN_OK" -> 1
    [] m.type = "OPEN_ERROR" -> 3
    [] OTHER -> 1

Prefix(size) == [cell |-> "length", size |-> size]

Body(m) == [cell |-> "body", message |-> m]

\* The cells Encode writes; none when it refuses the message.
Encode(m, maxMessageBytes) ==
  IF Validate(m) /\ BodySize(m) <= maxMessageBytes THEN <<Prefix(BodySize(m)), Body(m)>> ELSE <<>>

\* unmarshalMessage: OPEN builds its destination again, so a name this side
\* would not have written is refused.
Unmarshal(m) ==
  LET again == NewDestination(m.destination.host, m.destination.port)
  IN  IF m.type = "OPEN" /\ again.deny # "none" THEN Blank
      ELSE IF m.type = "OPEN" THEN Open(again.destination)
      ELSE m

\* What Decode makes of a stream: the outcome, the message, and how many cells
\* it has read.  A frame that is cut short ends in a cell of another kind.
Decode(stream, maxMessageBytes) ==
  LET fails(error, read) == [error |-> error, message |-> Blank, read |-> read]
  IN  IF stream[1].cell # "length" THEN fails("eof", 0)
      ELSE IF stream[1].size = 0 THEN fails("malformed", 1)
      ELSE IF stream[1].size > maxMessageBytes THEN fails("too-large", 1)
      ELSE IF stream[2].cell # "body" THEN fails("malformed", 1)
      ELSE IF ~Validate(Unmarshal(stream[2].message)) THEN fails("malformed", 2)
      ELSE [error |-> "none", message |-> Unmarshal(stream[2].message), read |-> 2]
=============================================================================
