--------------------------- MODULE MCBlockStream ----------------------------
(***************************************************************************)
(* Small instances of the block stream: chains of a few Avail blocks.      *)
(***************************************************************************)
EXTENDS BlockStream

\* Avail blocks without a blob, with an extrinsic of others beside a block, and
\* with a blob that does not decode beside one.
MCContents == {<<"foreign">>, <<"garbage", "block">>, <<"badrlp", "block">>}
=============================================================================
