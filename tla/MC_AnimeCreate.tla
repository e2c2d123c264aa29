--------------------------- MODULE MC_AnimeCreate ---------------------------
(* A file and a search hit; one Jellyfin folder, which the search lists in  *)
(* the first of two visits and which can be adopted, discarded and adopted  *)
(* again; and two anime, for a submission may follow one that failed, one   *)
(* whose redirect is still due, or one of the visit before.                 *)
EXTENDS AnimeCreate

CONSTANTS f1, h1, j1

MCFile == {f1}
MCHit == {h1}
MCCandidate == {j1}
MCVisits == 2
MCListed == [v \in 1 .. 2 |-> IF v = 1 THEN {j1} ELSE {}]
MCAnime == {1, 2}
=============================================================================
