------------------------------ MODULE SlidesMC ------------------------------
(* A short presentation for TLC: a slide with two shapes and one with one. *)
EXTENDS Slides

CONSTANTS p1, p2

MCActions == << <<1, 2, 1>>, <<1>> >>
MCUuids == UNION {{<<s, 0>>} \cup {<<s, MCActions[s][i]>> : i \in DOMAIN MCActions[s]}
                  : s \in DOMAIN MCActions}
MCLooks == [move : 0..3, size : 0..2]

(* A lesson with slides stepped through in both directions or in a window  *)
(* that is resized, and a live class with the same.                        *)
MCUsages == {{"next", "previous", "page"}, {"next", "resize", "page"},
             {"live", "next", "resize", "page"}}
=============================================================================
