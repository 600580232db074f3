-------------------------- MODULE MCAmqpTransport --------------------------
(* Instances of AmqpTransport for TLC. *)
EXTENDS AmqpTransport, TLC

CONSTANT u1

OneUser == {u1}

Bound(user, owner, handler) ==
    [c \in Callers |-> CASE c = Owner -> owner [] c = Io -> handler [] OTHER -> user]
\* Two attach() and two detach(); two calls of a user or of a handler in all.
TwoSessions == Bound(2, 4, 1)
TwoCalls == calls[u1] + calls[Io] <= 2
=============================================================================
