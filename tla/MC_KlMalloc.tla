---------------------------- MODULE MC_KlMalloc ----------------------------
(***************************************************************************)
(* KlMalloc on three pages of 36 bytes: three cells of 8 bytes or one of   *)
(* 16 in a small page, and big bins of 20 and 56 bytes.                    *)
(***************************************************************************)
EXTENDS KlMalloc

NoWrap == {<<2, 4>>}          \* 8 bytes
=============================================================================
