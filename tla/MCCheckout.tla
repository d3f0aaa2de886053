------------------------------ MODULE MCCheckout ------------------------------
(***************************************************************************)
(* Small instances of Checkout: two pages of one customer, both with the   *)
(* coupon, which may be redeemed once; the first page is submitted twice.  *)
(***************************************************************************)
EXTENDS Checkout, TLC

CONSTANTS p1, p2, s1, s2, s3, alice

TwoPages == s1 :> p1 @@ s2 :> p1 @@ s3 :> p2
OneCustomer == [p \in Pages |-> alice]
=============================================================================
