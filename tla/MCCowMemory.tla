---------------------------- MODULE MCCowMemory ----------------------------
(***************************************************************************)
(* CowMemory for TLC.  Free pages are alike (all junk, all unreferenced)   *)
(* and no property names a page, so that states which differ only by a     *)
(* renaming of pages are identified.                                       *)
(***************************************************************************)
EXTENDS CowMemory, TLC

GrowAndShrink  == {1, -2}
PageSymmetry   == Permutations(Pages)
=============================================================================
