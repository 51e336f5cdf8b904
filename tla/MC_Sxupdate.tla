---------------------------- MODULE MC_Sxupdate ----------------------------
(***************************************************************************)
(* One https and one file url, two keys.                                   *)
(***************************************************************************)
EXTENDS Sxupdate

CONSTANTS https, file, k1, k2

MCHttpsUrls == {https}
MCFileUrls == {file}
MCKeys == {k1, k2}

\* no answer, success, refused; and a redirect, where the code is the point
MCCodes == {0, 200, 401}
MCAllCodes == {0, 200, 301, 401}
=============================================================================
