-------------------------- MODULE MCRosterRefresh --------------------------
(* Two namesakes and two ids, which the databases begin with in either order *)
(* and with years that are confirmed, estimated or missing.                 *)
EXTENDS RosterRefresh, TLC

CONSTANTS x, y, K, r1

MCName == [p \in Person |-> K]
MCTrueYear == (x :> 1 @@ y :> 2)

Of(p, year, estimated) == [person |-> p, year |-> year, estimated |-> estimated]
X == {Of(x, 1, FALSE)}
Y == {Of(y, 2, FALSE), Of(y, 1, TRUE), Of(y, NoYear, FALSE)}

\* The last of each are namesakes whom nothing in their rows tells apart, with the
\* ids exchanged.
MCStartProd == {<<a, b>> : a \in X, b \in Y \ {Of(y, NoYear, FALSE)}}
                  \cup {<<Of(x, NoYear, FALSE), Of(y, NoYear, FALSE)>>}
MCStartCert == {<<a, b>> : a \in X, b \in Y} \cup {<<b, a>> : a \in X, b \in Y}
                  \cup {<<Of(y, 2, FALSE)>>, <<Of(y, NoYear, FALSE), Of(x, NoYear, FALSE)>>}
=============================================================================
