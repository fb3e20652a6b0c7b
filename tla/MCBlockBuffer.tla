---------------------------- MODULE MCBlockBuffer ----------------------------
(* Blocks of three bytes and a length field of two, so that a few bytes     *)
(* span several blocks and every position of a block boundary occurs.       *)
EXTENDS BlockBuffer
=============================================================================
