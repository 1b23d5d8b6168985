----------------------------- MODULE MCSwitching -----------------------------
(* A switch with one station on each of its three ports.                     *)
EXTENDS Switching, MCRelay

Addresses == 0 .. 2
Settings == {0, 3}

(* Stations a and c send from address 1 (a station that has moved, or two    *)
(* with one address), b from address 2; each to the other address. The frame *)
(* h is offered to a while f may still be on its way out, and is deferred.   *)
Sources == (f :> 1) @@ (g :> 2) @@ (h :> 1)
Destinations == (f :> 2) @@ (g :> 1) @@ (h :> 2)
Talk == {<<0, a, f>>, <<0, b, g>>, <<5, b, g>>, <<4, a, h>>, <<3, c, h>>, <<9, c, h>>}
===========================================================================
