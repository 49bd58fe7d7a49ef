---------------------------- MODULE MCPartTable ------------------------------
(* Instance of PartTable for TLC: the constants a cfg cannot write. *)
EXTENDS PartTable

\* Cylinders of 3, 4 and 8 sectors, the last larger than Align.
MCGeometries == {<<1, 3>>, <<2, 2>>, <<4, 2>>}
\* No size, every size up to beyond a word of sectors, and more cylinders than
\* a word.
MCDisks == 0..70 \cup {129, 300}
=============================================================================
