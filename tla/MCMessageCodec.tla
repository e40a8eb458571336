--------------------------- MODULE MCMessageCodec ---------------------------
(***************************************************************************)
(* What the agent reads of a client's message, over small numbers and      *)
(* numbers made of the bytes at the edges of a signed char.                *)
(***************************************************************************)
EXTENDS MessageCodec

CONSTANTS Small, Lengths     \* bounds: 0..Small and 0..Lengths are all tried

VARIABLES
  sent,      \* the message of the client
  read       \* what deserialize made of it, or the empty sequence before

Bytes == {0, 1, 127, 128, 255}

Sessions ==
  0..Small \cup
    {a * 2^24 + b * 2^16 + c * 2^8 + d : a \in {0, 1, 127}, b, c, d \in Bytes}

Text(n) == [i \in 1..n |-> 65 + (i % 26)]

M(s, n) == [session |-> s, type |-> 1, name |-> Text(n), body |-> <<1, 2, 3>>]

Messages == {M(s, 12) : s \in Sessions} \cup {M(1, n) : n \in 0..Lengths}

Init == sent \in Messages /\ read = <<>>

Deserialize ==
  LET buf == client_packet(sent) IN
  /\ read = <<>>
  /\ read' = <<deserialize(buf, Len(buf))>>
  /\ UNCHANGED sent

Spec == Init /\ [][Deserialize]_<<sent, read>>

\* A session that is not negative is the one the client sent, and so is the
\* length of the name: the signed chars of unpackMessage
\* (lua_connectionManager.c) make a number negative, they never make it
\* another number a client could have counted up to.
NonNegativeIsExact ==
  \A i \in 1..Len(read) :
    LET h == read[i].header IN
    /\ h.session >= 0 => h.session = sent.session
    /\ h.length >= 0 => h.length = Len(sent.name)

\* Where the length could be read, unpackMessage copies the name, as much of
\* it as its buffer holds, and deserialize (owlies_connection_manager.lua)
\* hands the decoder the body, not a byte less or more: the offsets in C and
\* the size computed in Lua from its own constant agree.
BodyIsWhatFollows ==
  \A i \in 1..Len(read) :
    LET h == read[i].header IN
    h.length >= 0 =>
      /\ h.name = IF h.length <= TYPE_STRING_MAX_LEN
                    THEN sent.name ELSE SubSeq(sent.name, 1, TYPE_STRING_MAX_LEN)
      /\ read[i].sz = Len(sent.body)
      /\ SubSeq(client_packet(sent), h.start + 1, h.start + read[i].sz) = sent.body
=============================================================================
