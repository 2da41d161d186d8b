------------------------------ MODULE MCUidDb ------------------------------
(***************************************************************************)
(* Ids of characters with two bits: prefixes of one another, and ids that  *)
(* differ in the first, the second or the last bit.                        *)
(***************************************************************************)
EXTENDS UidDb

MCIds == {<<1>>, <<2>>, <<3>>, <<1, 1>>, <<2, 2>>, <<1, 2, 1>>, <<3, 1>>, <<2, 1, 3>>}
=============================================================================
