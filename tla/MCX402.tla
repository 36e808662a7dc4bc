------------------------------- MODULE MCX402 -------------------------------
(***************************************************************************)
(* Two calls to one resource, one attempt an hour.  Under a cap of 4 the   *)
(* payments of 2 and 3 fit alone and exceed it together or repeated, 5     *)
(* fits only next to a hold of -2, and 6 exceeds the cap of one task.      *)
(***************************************************************************)
EXTENDS X402, TLC

CONSTANTS c1, c2, url, k1, k2, k3, k4, k5

MCUrlOf == [c \in Calls |-> url]
MCOffers == [u \in Urls |-> Keys]
MCAmount == k1 :> 2 @@ k2 :> 3 @@ k3 :> -2 @@ k4 :> 5 @@ k5 :> 6
MCCovers == [e \in Entries |-> {url}]
=============================================================================
