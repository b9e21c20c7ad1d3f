--------------------------- MODULE OutboundStream ---------------------------
(***************************************************************************)
(* What a TCP connection promises to those who write to it, application    *)
(* tasks through a Channel and handlers through their Context: messages    *)
(* accepted from one source are delivered in order, once, and without a    *)
(* gap; a message is confirmed only after it was delivered or a pipeline   *)
(* stage vetoed it; a message that was denied is never delivered; nothing  *)
(* is delivered after the connection ended.  An end may lose what was      *)
(* accepted and neither confirmed nor denied.                              *)
(***************************************************************************)
EXTENDS Integers, Sequences

CONSTANT Sources    \* everyone who writes

VARIABLES
  accepted,   (* Messages taken from their source.                         *)
  delivered,  (* Messages handed to the socket, in order.                  *)
  vetoed,     (* Messages a pipeline stage dropped on purpose.             *)
  confirmed,  (* Messages whose source was told they are flushed.          *)
  denied,     (* Messages whose source was told they are not.              *)
  open        (* The connection has not ended.                             *)

vars == <<accepted, delivered, vetoed, confirmed, denied, open>>

Delivered(s) == {s[i] : i \in 1..Len(s)}

Init ==
  /\ accepted = {} /\ vetoed = {} /\ confirmed = {} /\ denied = {}
  /\ delivered = <<>>
  /\ open = TRUE

\* s delivers accepted messages once each, those of a source in their order
\* and with none left out but the vetoed ones
InOrder(s) ==
  /\ Delivered(s) \subseteq accepted \ vetoed
  /\ \A i, j \in 1..Len(s) : i # j => s[i] # s[j]
  /\ \A i \in 1..Len(s) : \A m \in accepted \ vetoed :
       m.src = s[i].src /\ m.n < s[i].n => \E j \in 1..(i - 1) : s[j] = m

\* delivered grows by some messages at its end
Extends ==
  /\ Len(delivered') >= Len(delivered)
  /\ SubSeq(delivered', 1, Len(delivered)) = delivered
  /\ InOrder(delivered')

\* One more message, the latest of its source
Accept ==
  /\ open
  /\ \E m \in accepted' \ accepted :
       /\ m.src \in Sources /\ m.n \in Nat
       /\ \A k \in accepted : k.src = m.src => k.n < m.n
       /\ accepted' = accepted \cup {m}
  /\ UNCHANGED <<delivered, vetoed, confirmed, denied, open>>

Veto ==
  /\ open
  /\ \E m \in accepted \ Delivered(delivered) : vetoed' = vetoed \cup {m}
  /\ UNCHANGED <<accepted, delivered, confirmed, denied, open>>

\* Deliver, and confirm some of what is delivered or vetoed by then
Deliver ==
  /\ open
  /\ Extends
  /\ confirmed \subseteq confirmed'
  /\ confirmed' \subseteq confirmed \cup Delivered(delivered') \cup vetoed
  /\ UNCHANGED <<accepted, vetoed, denied, open>>

\* The end: some messages may still get through, others are denied
End ==
  /\ open
  /\ open' = FALSE
  /\ Extends
  /\ denied \subseteq denied'
  /\ denied' \cap (confirmed \cup Delivered(delivered')) = {}
  /\ UNCHANGED <<accepted, vetoed, confirmed>>

\* After the end whoever still tries is refused
Refuse ==
  /\ ~open
  /\ denied \subseteq denied'
  /\ denied' \cap (confirmed \cup Delivered(delivered)) = {}
  /\ UNCHANGED <<accepted, delivered, vetoed, confirmed, open>>

Next ==
  \/ Accept
  \/ Veto
  \/ Deliver
  \/ End
  \/ Refuse

Spec == Init /\ [][Next]_vars
=============================================================================
