----------------------------- MODULE MCReducer -----------------------------
(***************************************************************************)
(* TLC instance of Reducer: every one-step reduction over a few terms, so  *)
(* chains that end, fail, loop on one term and loop through several are    *)
(* all among them, with limits below, at and above the length of the       *)
(* longest chain without repetition.                                       *)
(***************************************************************************)
EXTENDS Reducer
CONSTANTS MaxLimit       \* the largest limit tried

MCLimits == 0..MaxLimit
=============================================================================
