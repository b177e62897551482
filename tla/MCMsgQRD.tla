------------------------------ MODULE MCMsgQRD ------------------------------
(* Small instances of MsgQRD for TLC. *)
EXTENDS MsgQRD, TLC

CONSTANTS h1, h2, h3

(* Handlers are interchangeable: nothing compares or orders them. *)
Symmetry == Permutations(Handlers)

Req(k, n, p) == [kind |-> k, name |-> n, id |-> p]

(* One name that is added, looked up and removed; another that is added    *)
(* with an abbreviated command.                                            *)
TwoNames == {Req("add", 2, 1), Req("find", 2, 1), Req("remove", 2, 1), Req("abbrev", 1, 1)}

(* One kind of request, for the liveness runs. *)
OnlyAdd == {Req("add", 1, 1)}
=============================================================================
