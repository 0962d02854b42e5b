----------------------------- MODULE MCUploads -----------------------------
(* Small instances of Uploads for TLC: files below, at and above the limit *)
(* and the request limit, whole and partial last chunks, and overheads on  *)
(* both sides of the margin.                                               *)
EXTENDS Uploads

SizesOf == 0..9
OverheadsOf == 0..4
=============================================================================
