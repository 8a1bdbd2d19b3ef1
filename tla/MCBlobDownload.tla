--------------------------- MODULE MCBlobDownload ---------------------------
(* Instances of BlobDownload. *)
EXTENDS BlobDownload

CONSTANTS c1, c2

\* Two parts, the last one smaller.
MCSize(n) == IF n = 0 THEN 2 ELSE 1
=============================================================================
