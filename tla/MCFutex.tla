------------------------------ MODULE MCFutex ------------------------------
(* Two words, in one page or in two. *)
EXTENDS Futex

OnePage  == [w \in Words |-> "g"]
TwoPages == [w \in Words |-> w]
=============================================================================
