---------------------------- MODULE MCFileDemos ----------------------------
(***************************************************************************)
(* The instance of FileDemos for TLC: an empty line and lines that fill    *)
(* one or two thirds of what pipe-reader takes at once.                    *)
(***************************************************************************)
EXTENDS FileDemos

(* Three bits: the sizes 4 and 9 are negative and 1 when they are stored in an int. *)
Ints == -4..3

EmptyShortLong == {<<>>, <<1>>, <<2, 3>>}
=============================================================================
