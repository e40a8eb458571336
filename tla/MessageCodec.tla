---------------------------- MODULE MessageCodec ----------------------------
(***************************************************************************)
(* A message of a client as lua_connectionManager.c unpacks it: the        *)
(* session in four bytes, the type in one, the length of the name in two,  *)
(* big endian, then the name and the body.  (packMessage, for the other    *)
(* direction, has no type in its header; nothing in the server reads what  *)
(* it packs.)                                                              *)
(*                                                                         *)
(* unpackMessage reads the bytes through a char pointer.  A char is signed *)
(* in the builds of this server, so a byte above 127 is a negative int     *)
(* before it is shifted, and the bitwise or with its sign bits wipes out   *)
(* the bytes to its left.                                                  *)
(***************************************************************************)
EXTENDS Integers, Sequences

TYPE_STRING_MAX_LEN == 255

\* The client (not part of this repository) writes its message in the layout
\* that unpackMessage expects.
ByteOf(x, shift) == (x \div 2^shift) % 256
sessionBytes(s) == <<ByteOf(s, 24), ByteOf(s, 16), ByteOf(s, 8), ByteOf(s, 0)>>
lengthBytes(n) == <<ByteOf(n, 8), ByteOf(n, 0)>>
client_packet(m) ==
  sessionBytes(m.session) \o <<m.type>> \o lengthBytes(Len(m.name)) \o m.name \o m.body

\* A byte of the buffer as the int that a (signed) char is promoted to.
Char(b) == IF b >= 128 THEN b - 256 ELSE b

\* hi | lo where the bits of hi to the right of lo's sign bit are zero.
BitOr(hi, lo) == IF lo < 0 THEN lo ELSE hi + lo

\* Mutant: the two bytes in the middle are exchanged.
unpackSession_Exchanged(b0, b1, b2, b3) ==
  BitOr(BitOr(BitOr(Char(b0) * 2^24, Char(b2) * 2^16), Char(b1) * 2^8), Char(b3))

\* buf[0] << 24 | buf[1] << 16 | buf[2] << 8 | buf[3]
unpackSession(b0, b1, b2, b3) ==
  BitOr(BitOr(BitOr(Char(b0) * 2^24, Char(b1) * 2^16), Char(b2) * 2^8), Char(b3))

\* buf[5] << 8 | buf[6]
unpackLength(b5, b6) == BitOr(Char(b5) * 2^8, Char(b6))

\* unpackMessage: the name is copied up to the size of its buffer, and the
\* body starts where the name ends.  (Positions count from zero, as in C.)
unpackMessage(buf) ==
  LET length == unpackLength(buf[6], buf[7])
      copied == IF length < TYPE_STRING_MAX_LEN THEN length ELSE TYPE_STRING_MAX_LEN
  IN [session |-> unpackSession(buf[1], buf[2], buf[3], buf[4]),
      type |-> Char(buf[5]),
      length |-> length,
      name |-> SubSeq(buf, 8, 7 + copied),
      start |-> 7 + length]

\* Mutant: the size of packMessage's header, which has no type.
deserialize_ShortHeader(buf, size) ==
  LET u == unpackMessage(buf) IN
  [header |-> u, sz |-> size - 6 - u.length]

\* deserialize: what is left of the message after header and name goes to the
\* sproto decoder.
deserialize(buf, size) ==
  LET u == unpackMessage(buf) IN
  [header |-> u, sz |-> size - 7 - u.length]

\* The session the server reads when the client sent session s.
Received(s) ==
  LET b == sessionBytes(s) IN unpackSession(b[1], b[2], b[3], b[4])
=============================================================================
