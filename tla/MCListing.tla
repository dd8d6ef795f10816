----------------------------- MODULE MCListing ------------------------------
(* Small directories for TLC: a short and a long file, a directory and a   *)
(* hidden directory, in readdir() orders of every kind.                    *)
EXTENDS Listing, TLC

CONSTANTS short, dir, long, dot

MCName == {short, dir, long, dot}
MCLen == (short :> 1) @@ (dir :> 2) @@ (long :> 3) @@ (dot :> 4) @@ (Empty :> 0)
MCRank == (dot :> 1) @@ (long :> 2) @@ (dir :> 3) @@ (short :> 4) @@ (Empty :> 0)
=============================================================================
