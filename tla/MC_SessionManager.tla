-------------------------- MODULE MC_SessionManager --------------------------
(***************************************************************************)
(* Model-checking instance of SessionManager.  The constants are given in  *)
(* the .cfg files; this module fixes the recorded SEID values.  Two        *)
(* recorded sessions with CP SEIDs 1 and 2; the original UPF's SEIDs are   *)
(* 3 and 4 (disjoint from the CP SEIDs) or 1 and 2 (both sides numbered    *)
(* from 1, as the mock UPF and most SMFs do).                              *)
(***************************************************************************)
EXTENDS SessionManager

MC_OrigCPSEIDs == {1, 2}
MC_DisjointUPSEIDs == {3, 4}
MC_OverlappingUPSEIDs == {1, 2}

==============================================================================
