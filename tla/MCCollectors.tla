--------------------------- MODULE MCCollectors ----------------------------
(* Values for the constants of Collectors and UniFi.                       *)
EXTENDS Collectors

CONSTANTS u1, p1, p2, n1, n2

\* More devices and clients than a page holds.
MCInventories == {<<>>, <<TRUE, FALSE, TRUE>>}
MCPopulations == {<<"WIRELESS", "VPN", "WIRED">>}
\* The one is of all nodes; the star of the other names none.
MCNodeScope == (p1 :> <<Blank, Blank>>) @@ (p2 :> <<SpacedStar, n2>>)

=============================================================================
