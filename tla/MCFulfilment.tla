----------------------------- MODULE MCFulfilment -----------------------------
(***************************************************************************)
(* A small instance of Fulfilment: one page, two workers, one failure and  *)
(* one death.                                                              *)
(***************************************************************************)
EXTENDS Fulfilment, TLC

CONSTANTS p1, s1, w1, w2, t1, alice

OneSubmit == s1 :> p1
OneCustomer == p1 :> alice
=============================================================================
