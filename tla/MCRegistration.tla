--------------------------- MODULE MCRegistration ---------------------------
(***************************************************************************)
(* Instances of Registration for TLC.                                      *)
(***************************************************************************)
EXTENDS Registration, TLC

\* Ids, emails, codes and workers are each interchangeable.
Symmetry == Permutations(Ids) \cup Permutations(Emails) \cup Permutations(Codes)
              \cup Permutations(Workers)
=============================================================================
