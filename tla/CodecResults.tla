---------------------------- MODULE CodecResults ----------------------------
(***************************************************************************)
(* What a Decoder and an Encoder of codec/mod.rs answer.  Decoding a       *)
(* buffer answers NeedMore (Ok(None)), an Item together with the bytes     *)
(* that stay in the buffer, or Failed; encoding an item answers its bytes  *)
(* or is Refused.                                                          *)
(***************************************************************************)
NeedMore         == [kind |-> "none"]
Item(item, rest) == [kind |-> "item", item |-> item, rest |-> rest]
Failed(error)    == [kind |-> "error", error |-> error]
Ok(bytes)        == [ok |-> TRUE, bytes |-> bytes]
Refused          == [ok |-> FALSE, bytes |-> <<>>]
=============================================================================
