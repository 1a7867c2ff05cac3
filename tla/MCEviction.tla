----------------------------- MODULE MCEviction -----------------------------
(* Three blocks of two units and one unit more, in two parts or, when      *)
(* reads are short, three; three lines, of which the last is cut by the    *)
(* end of the first part.  One spare file for a put.                       *)
EXTENDS Eviction

MCLineEnd == <<3, 5, 7>>
MCFileOf == <<11, 12, 13>>
MCFiles == {11, 12, 13, 14}
MCExpired == {2}
=============================================================================
