------------------------------ MODULE MCRouting ------------------------------
(* Two regions with three and one accounts; accounts 1 and 2 take one request *)
(* at a time.  Requests differ only in name, so they are symmetric.           *)
EXTENDS Routing, TLC

MCRegionOf == <<1, 1, 2, 1>>
MCCap == <<1, 1, 0, 0>>
MCNoPin == {NoAccount}
MCPins == {NoAccount, 2}
TwoRegionOf == <<1, 1>>
TwoCap == <<1, 0>>
Interchangeable == Permutations(Request)
=============================================================================
