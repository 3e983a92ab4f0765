--------------------------- MODULE MCTransactions ---------------------------
(***************************************************************************)
(* A small instance of Transactions: a connection with an ID of its own,   *)
(* and two HTTP requests at a time.                                        *)
(***************************************************************************)
EXTENDS Transactions, TLC

CONSTANTS c1, c2, c3, tcp1, http

OneAndHttp == c1 :> tcp1 @@ c2 :> http @@ c3 :> http
ThreeTwoOne == c1 :> 3 @@ c2 :> 2 @@ c3 :> 1
=============================================================================
