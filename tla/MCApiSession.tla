---------------------------- MODULE MCApiSession ----------------------------
(***************************************************************************)
(* The messages the clients send in the runs of ApiSession.                *)
(***************************************************************************)
EXTENDS ApiSession, TLC

M(t, n, s, c) == [type |-> t, name |-> n, session |-> s, complete |-> c]

\* Every way a message is treated: logins (complete, incomplete, sent as an
\* ApiCall), messages in and out of sequence, an unknown type or name.  The
\* sessions lie around 128, which needs the sign bit of its byte.
AllKinds ==
  { M(ChangeEvent, LoginRequest, 126, TRUE), M(ChangeEvent, LoginRequest, 125, FALSE),
    M(ApiCall, LoginRequest, 127, TRUE),
    M(ChangeEvent, "Person", 127, TRUE), M(ApiCall, "Person", 127, TRUE),
    M(ApiCall, "Person", 128, TRUE), M(0, "Person", 127, TRUE),
    M(ChangeEvent, "unknown", 127, TRUE) }

\* For three messages: those that are in order or skip a session.
InOrder ==
  { M(ChangeEvent, LoginRequest, 125, TRUE), M(ApiCall, LoginRequest, 126, TRUE),
    M(ChangeEvent, "Person", 126, TRUE), M(ApiCall, "Person", 127, TRUE),
    M(ApiCall, "Person", 128, TRUE) }

\* For two clients: logins and messages that follow them.  The logins lack a
\* column and end after their first query, which bounds how many interleave.
TwoClients ==
  { M(ChangeEvent, LoginRequest, 1, FALSE), M(ChangeEvent, "Person", 2, TRUE) }

\* A client that counts on past 127.
Counting ==
  { M(ChangeEvent, LoginRequest, 127, TRUE), M(ApiCall, "Person", 128, TRUE) }

Symmetry == Permutations(Fds)
=============================================================================
