----------------------------- MODULE DecodeLoop -----------------------------
(***************************************************************************)
(* A byte stream of a peer, cut into reads at any place, and the decode    *)
(* loop of the connection that turns it into items (transport/tcp/         *)
(* connection.rs, handle_read): after each read the codec decodes until it *)
(* asks for more bytes or fails, and a failure ends the connection.  The   *)
(* limit that the connection itself puts on its read buffer is part of     *)
(* StreamConnection and is not repeated here.                              *)
(*                                                                         *)
(* The codec is any value of the trait Decoder: its operators are          *)
(* constants, for which StreamDecoding gives those of the repository.      *)
(* What the peer sends is either an arbitrary sequence of bytes or a list  *)
(* of messages, encoded.                                                   *)
(***************************************************************************)
EXTENDS Integers, Sequences, SequencesExt

CONSTANTS
  Decode(_, _),       (* Decoder::decode, see CodecResults.                *)
  PeerEncode(_, _),   (* The bytes a peer sends for a message.             *)
  Received(_, _),     (* The item that stands for a message sent.          *)
  Carries(_, _),      (* The messages a codec can carry.                   *)
  Framed(_),          (* Whether an item has boundaries in the stream.     *)
  Nested(_),          (* Where the outcome may depend on the cuts: in      *)
  CutAtLimit(_, _),   (* nested delimiters, and at the limit of a size.    *)
  HasBound(_),        (* Whether the codec bounds what it holds back,      *)
  Held(_),            (* and how much that may be.                         *)
  WithinLimit(_, _, _), (* Whether an item and the bytes it took are       *)
                      (* within the limits of the codec.                   *)
  Forwards(_),        (* Whether a decoded item can be sent on as it is.   *)
  RawStreams,  (* Bound: bytes a peer sends, as sets of [codec, bytes],    *)
               (* one set for each family of codecs.                       *)
  Dialogues    (* Bound: messages a peer sends, as sets of [codec, items]. *)

VARIABLES
  codec,       (* The codec of the pipeline, with its configuration.       *)
  sent,        (* The messages the peer sent, or <<>> for raw bytes.       *)
  input,       (* The bytes the peer sends.                                *)
  arrived,     (* How many of them have been read.                         *)
  buf,         (* read_buf.                                                *)
  items,       (* What the codec produced.                                 *)
  pc,          (* "read", "decode" or "failed".                            *)
  failure      (* The error that ended the connection, or "none".          *)

vars == <<codec, sent, input, arrived, buf, items, pc, failure>>

-----------------------------------------------------------------------------
\* The messages one after the other, as the peer sends them
Stream(c, messages) ==
  LET upto[n \in 0..Len(messages)] ==
        IF n = 0 THEN <<>> ELSE upto[n - 1] \o PeerEncode(c, messages[n])
  IN upto[Len(messages)]

Start ==
  /\ arrived = 0 /\ buf = <<>> /\ items = <<>>
  /\ pc = "read" /\ failure = "none"

Init ==
  /\ Start
  /\ \/ \E raw \in {RawStreams} : \E f \in DOMAIN raw : \E r \in raw[f] :
          codec = r.codec /\ sent = <<>> /\ input = r.bytes
     \/ \E talk \in {Dialogues} : \E f \in DOMAIN talk : \E d \in talk[f] :
          /\ \A i \in DOMAIN d.items : Carries(d.codec, d.items[i])
          /\ codec = d.codec /\ sent = d.items
          /\ input = Stream(d.codec, d.items)

\* A read returns any part of what is still to come
Read ==
  /\ pc = "read"
  /\ \E n \in 1..(Len(input) - arrived) :
       /\ arrived' = arrived + n
       /\ buf' = buf \o SubSeq(input, arrived + 1, arrived + n)
  /\ pc' = "decode"
  /\ UNCHANGED <<codec, sent, input, items, failure>>

\* One turn of the decode loop
DecodeStep ==
  /\ pc = "decode"
  /\ LET d == Decode(codec, buf)
     IN \/ /\ d.kind = "none"
           /\ pc' = "read"
           /\ UNCHANGED <<buf, items, failure>>
        \/ /\ d.kind = "item"
           /\ items' = Append(items, d.item)
           /\ buf' = d.rest
           /\ UNCHANGED <<pc, failure>>
        \/ /\ d.kind = "error"
           /\ pc' = "failed"
           /\ failure' = d.error
           /\ UNCHANGED <<buf, items>>
  /\ UNCHANGED <<codec, sent, input, arrived>>

Next == Read \/ DecodeStep

Spec == Init /\ [][Next]_vars

-----------------------------------------------------------------------------
\* Everything that comes has been decoded, or the connection has ended
Finished == pc = "failed" \/ (pc = "read" /\ arrived = Len(input))

(***************************************************************************)
(* The decode loop over a whole stream at once.  An item takes at least    *)
(* one byte, so a stream needs no more turns than it has bytes.            *)
(***************************************************************************)
Turn(c, s) ==
  LET d == Decode(c, s.rest)
  IN IF s.failure # "none" THEN s
     ELSE IF d.kind = "item"
       THEN [items |-> Append(s.items, d.item), rest |-> d.rest, failure |-> "none"]
     ELSE IF d.kind = "error" THEN [s EXCEPT !.failure = d.error]
     ELSE s

Turns(c, bytes, n) ==
  LET turn[i \in 0..n] ==
        IF i = 0 THEN [items |-> <<>>, rest |-> bytes, failure |-> "none"]
                 ELSE Turn(c, turn[i - 1])
  IN turn[n]

DecodeAll(c, bytes) == Turns(c, bytes, Len(bytes))

\* Without frames only the bytes themselves count
Content(c, s) == IF Framed(c) THEN s ELSE FlattenSeq(s)

\* At the limit of a size the cuts may matter: see CutAtLimit
SameOutcome(whole) ==
  \/ /\ Content(codec, items) = Content(codec, whole.items)
     /\ failure = whole.failure
  \/ /\ failure = "FrameTooLarge"
     /\ CutAtLimit(codec, buf)
     /\ IsPrefix(items, whole.items)

\* What a connection makes of a stream does not depend on how the network cut
\* it into reads: the items and the failure are those of the stream decoded in
\* one piece (up to the exceptions above).
CutIndependent ==
  Finished /\ ~Nested(codec) => SameOutcome(DecodeAll(codec, input))

\* Messages that the peer encoded come out as they went in, one by one, and
\* nothing is left over: encoder and decoder agree about every boundary.
RoundTrip ==
  Finished /\ sent # <<>> =>
    /\ failure = "none"
    /\ buf = <<>>
    /\ Content(codec, items)
         = Content(codec, [i \in DOMAIN sent |-> Received(codec, sent[i])])

\* A packet that was accepted can be sent on, as a broker does: the codec
\* encodes every item it decoded, and the receiver gets the same item.
Forwardable ==
  Forwards(codec) =>
    \A i \in DOMAIN items :
      /\ Carries(codec, items[i])
      /\ Decode(codec, PeerEncode(codec, items[i]))
           = [kind |-> "item", item |-> items[i], rest |-> <<>>]

\* While it asks for more, a decoder with a limit never holds more than that
\* limit: a peer that sends no boundary cannot make the buffer grow.
BufferIsBounded == pc = "read" /\ HasBound(codec) => Len(buf) <= Held(codec)

\* Nothing above its limits gets through a codec: an item, or the bytes of the
\* stream that it took, is never more than the configured maximum.
LimitRespected ==
  [][\A i \in DOMAIN items' \ DOMAIN items :
       WithinLimit(codec, items'[i], Len(buf) - Len(buf'))]_vars
=============================================================================
