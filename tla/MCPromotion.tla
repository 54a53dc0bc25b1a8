---------------------------- MODULE MCPromotion ----------------------------
(* Two versions of the listings, two revisions of the roster; the gate blocks *)
(* the older listings under the newer revision.                              *)
EXTENDS Promotion

Unfit == {<<1, 2>>}
=============================================================================
