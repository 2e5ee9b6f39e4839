---------------------------- MODULE MCEadSession ----------------------------
(* Instances of EadSession for TLC: a password file with two users.        *)
EXTENDS EadSession, TLC

CONSTANTS c1, c2, c3, c4, root, admin, nobody, right, wrong

MCPasswd == (root :> right) @@ (admin :> right)

(* The second client has mistyped the password, the third is another user. *)
TwoUsers == [c \in Clients |-> IF c = c3 THEN admin ELSE root]
MixedPassword == [c \in Clients |-> IF c = c2 THEN wrong ELSE right]

(* The last client names a user without an entry.                          *)
UnknownUser == [c \in Clients |-> IF c = c4 THEN nobody ELSE root]
RightPassword == [c \in Clients |-> right]
=============================================================================
