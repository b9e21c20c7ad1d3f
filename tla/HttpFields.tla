----------------------------- MODULE HttpFields -----------------------------
(***************************************************************************)
(* The header fields that the HTTP and WebSocket codecs of rs-netty look   *)
(* at (codec/http.rs, codec/websocket.rs), each a token of its own, and    *)
(* the question whether a request asks for an upgrade.                     *)
(***************************************************************************)
EXTENDS Integers, Sequences, SequencesExt

\* Content-Length headers by their value; "length?" is not a number
ContentLengths == [length0 |-> 0, length1 |-> 1, length3 |-> 3]

\* Transfer-Encoding headers by the codings they list
TransferCodings ==
  [chunked |-> <<"chunked">>, identity |-> <<"identity">>, gzip |-> <<"gzip">>,
   gzip_chunked |-> <<"gzip", "chunked">>,
   chunked_gzip |-> <<"chunked", "gzip">>]

UpgradeHeaders == {"Upgrade: websocket", "Connection: Upgrade",
                   "Sec-WebSocket-Version: 13", "Sec-WebSocket-Key"}

HeaderFields == DOMAIN ContentLengths \cup DOMAIN TransferCodings
                  \cup {"length?", "other"} \cup UpgradeHeaders

is_websocket_upgrade(request) ==
  /\ request.method = "GET"
  /\ {"Upgrade: websocket", "Connection: Upgrade"} \subseteq ToSet(request.fields)
=============================================================================
