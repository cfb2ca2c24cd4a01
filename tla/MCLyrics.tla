------------------------------ MODULE MCLyrics ------------------------------
(* Two tracks; a client that picks among the online candidates, or none.      *)
EXTENDS Lyrics

MCPickable == {c \in Candidates : c.backend \in Online}
MCNone == {}

=============================================================================
