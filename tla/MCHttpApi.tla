------------------------------ MODULE MCHttpApi ------------------------------
(* Instance of HttpApi for TLC.                                             *)
EXTENDS HttpApi, TLC

CONSTANTS c1, o1

OneCustomer == {c1}
OneOperator == {o1}
=============================================================================
