------------------------------- MODULE MCBrowser -------------------------------
(* The browser over a card on which both directories hold a file of the same *)
(* name, one archive has a rom in it and the other has not, and one of the   *)
(* directories is above the threshold.                                       *)
EXTENDS Browsing, TLC

MCPlace == (1 :> <<"dev", 1>>) @@ (2 :> <<"sub", 1>>) @@ (3 :> <<"sub", 3>>)
           @@ (4 :> <<"sub", 2>>)
=============================================================================
