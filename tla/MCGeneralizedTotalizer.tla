----------------------- MODULE MCGeneralizedTotalizer -----------------------
(***************************************************************************)
(* Instantiates GeneralizedTotalizer for TLC: three input variables, the  *)
(* weights and bounds of each run come from its .cfg.                      *)
(***************************************************************************)
EXTENDS GeneralizedTotalizer

\* Input literals x1, x2, x3; the variable manager starts after them, as a
\* caller that reserved the input variables first does.
MCInLits == {1, 2, 3}
MCFirstVar == 4
=============================================================================
