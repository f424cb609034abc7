------------------------------ MODULE MCOrders ------------------------------
(* Orders with two order ids, one reference and two requests; the id that an *)
(* administrator writes matches one order or both.                           *)
EXTENDS Orders

CONSTANTS i1, i2, e1, r1, r2
MCIds == {i1, i2}
MCRefs == {e1}
MCMatches == {{i1}, {i1, i2}}
MCRequests == {r1, r2}
=============================================================================
