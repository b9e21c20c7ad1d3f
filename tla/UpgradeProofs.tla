---------------------------- MODULE UpgradeProofs ----------------------------
(***************************************************************************)
(* Theorems about Upgrade: on a connection that changes from HTTP to       *)
(* WebSocket the client reads a well-formed stream, every message is       *)
(* decoded in the state it was meant for, and every request is answered    *)
(* once, for any number of messages and frames.                            *)
(***************************************************************************)
EXTENDS Upgrade, TLAPS

Message == [type : Types, id : Nat]
Queued  == [type : {"101", "response", "push"}, id : Nat]
Sendable == [type : {"101", "response", "push", "answer"}, id : Nat]

TypeOK ==
  /\ kind \in {"HttpWs", "WebSocket"} /\ state \in {"Http", "Handshake", "Frames"}
  /\ handler \in {"router", "deferring"}
  /\ eager \in BOOLEAN /\ careless \in BOOLEAN
  /\ sent \in Seq(Message)
  /\ arrived \in 0..Len(sent) /\ decoded \in 0..arrived
  /\ pending \in SUBSET Message /\ commands \in Seq(Queued)
  /\ wire \in Seq(Sendable)
  /\ pc \in {"select", "decode", "ended"}
  /\ failure \in {"none", "Encode", "Decode", "Service", "FrameTooLarge", "Misread"}

(***************************************************************************)
(* What the client keeps to, seen from any later point.                    *)
(***************************************************************************)
Numbered == \A i \in DOMAIN sent : sent[i].id = i

AsksOnce ==
  \A i, j \in DOMAIN sent : sent[i].type = "upgrade" /\ i < j => IsFrame(sent[j])

FramesLater ==
  \A j \in DOMAIN sent :
    IsFrame(sent[j]) => \E i \in 1..(j - 1) : sent[i].type = "upgrade"

Patient == ~eager /\ (\E j \in DOMAIN sent : IsFrame(sent[j])) => Switched

(***************************************************************************)
(* Every answer, wherever it is, is that of a request that was decoded.    *)
(***************************************************************************)
AnswerOf(m) ==
  /\ m.id \in 1..decoded
  /\ ~IsFrame(sent[m.id])
  /\ m.type = "101" <=> sent[m.id].type = "upgrade"

PendingSource == \A m \in pending : m.id \in RequestAt /\ m = sent[m.id]
QueueSource   == \A i \in DOMAIN commands : commands[i].type # "push" => AnswerOf(commands[i])
WireSource    == \A j \in AnswerAt : AnswerOf(wire[j])

(***************************************************************************)
(* What the codec's state says about the messages decoded and written.     *)
(***************************************************************************)
UpgradeSeen == \E i \in 1..decoded : sent[i].type = "upgrade"

HttpState   == kind = "HttpWs" => state = IF Switched THEN "Frames" ELSE "Http"
SocketState ==
  kind = "WebSocket" =>
    /\ state = IF UpgradeSeen THEN "Frames" ELSE "Handshake"
    /\ \A i \in RequestAt : sent[i].type = "upgrade"

(***************************************************************************)
(* A router leaves nothing to tasks, and a careful task queues a frame     *)
(* only behind the 101 response.                                           *)
(***************************************************************************)
RouterAnswersAtOnce ==
  handler = "router" => pending = {} /\ \A i \in DOMAIN commands : commands[i].type = "push"

CarefulPushes ==
  ~careless => \A i \in DOMAIN commands :
    commands[i].type = "push" => Switched \/ \E j \in 1..(i - 1) : commands[j].type = "101"

(***************************************************************************)
(* No two answers have the same request, and while the connection lives    *)
(* every request has one.                                                  *)
(***************************************************************************)
WireOnce  == \A i, j \in AnswerAt : wire[i].id = wire[j].id => i = j
QueueOnce ==
  \A i, j \in DOMAIN commands :
    commands[i].type # "push" /\ commands[j].type # "push" /\ commands[i].id = commands[j].id => i = j

\* The request n is left to a task, its answer is queued, or it is written
Left(n)    == \E m \in pending : m.id = n
InQueue(n) == \E i \in DOMAIN commands : commands[i].type # "push" /\ commands[i].id = n
OnWire(n)  == \E j \in AnswerAt : wire[j].id = n

OnePlace ==
  /\ \A n \in Nat : InQueue(n) => ~OnWire(n)
  /\ \A n \in Nat : Left(n) => ~InQueue(n) /\ ~OnWire(n)

AnswerOwed(n) == Left(n) \/ InQueue(n) \/ OnWire(n)

AnswersOwed == pc # "ended" => \A n \in RequestAt : AnswerOwed(n)

RouterOrder ==
  handler = "router" => \A i, j \in AnswerAt : i < j => wire[i].id < wire[j].id

-----------------------------------------------------------------------------
(***************************************************************************)
(* The elements of the header lists.                                       *)
(***************************************************************************)
LEMMA OneField == ASSUME NEW a PROVE ToSet(<<a>>) = {a} /\ Http!ToSet(<<a>>) = {a}
<1> DEFINE s == <<a>>
<1>1. DOMAIN s = 1..1 /\ s[1] = a
  OBVIOUS
<1> HIDE DEF s
<1>2. {s[i] : i \in DOMAIN s} = {a}
  BY <1>1
<1>3. ToSet(s) = {a} /\ Http!ToSet(s) = {a}
  BY <1>2 DEF ToSet, Http!ToSet
<1> QED
  BY <1>3 DEF s

LEMMA TwoFields ==
  ASSUME NEW a, NEW b PROVE ToSet(<<a, b>>) = {a, b} /\ Http!ToSet(<<a, b>>) = {a, b}
<1> DEFINE s == <<a, b>>
<1>1. DOMAIN s = 1..2 /\ s[1] = a /\ s[2] = b
  OBVIOUS
<1> HIDE DEF s
<1>2. {s[i] : i \in DOMAIN s} = {a, b}
  BY <1>1
<1>3. ToSet(s) = {a, b} /\ Http!ToSet(s) = {a, b}
  BY <1>2 DEF ToSet, Http!ToSet
<1> QED
  BY <1>3 DEF s

(***************************************************************************)
(* Only a complete upgrade request passes parse_handshake, and only        *)
(* requests without its fields are ordinary requests.                      *)
(***************************************************************************)
LEMMA HandshakeFields ==
  ASSUME NEW m \in Message, ReadableHead(m)
  PROVE  /\ ValidHandshake(Request(m)) <=> m.type = "upgrade"
         /\ Http!is_websocket_upgrade(Request(m)) <=> m.type \in {"upgrade", "incomplete"}
<1>0. m.type \in {"plain", "upgrade", "incomplete"}
  BY DEF ReadableHead
<1>1. Request(m).method = "GET" /\ Request(m).fields = FieldsOf(m.type)
  BY DEF Request
<1> DEFINE F == ToSet(Request(m).fields)  G == Http!ToSet(Request(m).fields)
<1>2. CASE m.type = "plain"
  <2>1. FieldsOf(m.type) = <<"other">>
    BY <1>2 DEF FieldsOf
  <2>2. F = {"other"} /\ G = {"other"}
    BY <1>1, <2>1, OneField
  <2> HIDE DEF F, G
  <2>3. "Upgrade: websocket" \notin F /\ "Upgrade: websocket" \notin G
    BY <2>2
  <2> QED
    <3>1. ~(Http!UpgradeHeaders \subseteq F)
      BY <2>3 DEF Http!UpgradeHeaders
    <3>2. ~({"Upgrade: websocket", "Connection: Upgrade"} \subseteq G)
      BY <2>3
    <3> QED
      BY <1>2, <3>1, <3>2 DEF ValidHandshake, Http!is_websocket_upgrade, F, G
<1>3. CASE m.type = "incomplete"
  <2>1. FieldsOf(m.type) = <<"Upgrade: websocket", "Connection: Upgrade">>
    BY <1>3 DEF FieldsOf
  <2>2. F = {"Upgrade: websocket", "Connection: Upgrade"} /\ G = F
    <3> DEFINE s == <<"Upgrade: websocket", "Connection: Upgrade">>
    <3>1. F = ToSet(s) /\ G = Http!ToSet(s)
      BY <1>1, <2>1
    <3>2. ToSet(s) = {"Upgrade: websocket", "Connection: Upgrade"}
      BY TwoFields
    <3>3. Http!ToSet(s) = {"Upgrade: websocket", "Connection: Upgrade"}
      BY TwoFields
    <3> QED
      BY <3>1, <3>2, <3>3
  <2> HIDE DEF F, G
  <2>3. "Sec-WebSocket-Key" \notin F /\ {"Upgrade: websocket", "Connection: Upgrade"} \subseteq G
    BY <2>2
  <2> QED
    <3>1. ~(Http!UpgradeHeaders \subseteq F)
      BY <2>3 DEF Http!UpgradeHeaders
    <3> QED
      BY <1>1, <1>3, <2>3, <3>1 DEF ValidHandshake, Http!is_websocket_upgrade, F, G
<1>4. CASE m.type = "upgrade"
  <2>1. FieldsOf(m.type) = <<"Upgrade: websocket", "Connection: Upgrade",
                             "Sec-WebSocket-Version: 13", "Sec-WebSocket-Key">>
    BY <1>4 DEF FieldsOf
  <2>2. F = Http!UpgradeHeaders /\ G = F
    <3> DEFINE a == "Upgrade: websocket"  b == "Connection: Upgrade"
               c == "Sec-WebSocket-Version: 13"  d == "Sec-WebSocket-Key"
    <3>1. F = ToSet(<<a, b, c, d>>) /\ G = Http!ToSet(<<a, b, c, d>>)
      BY <1>1, <2>1
    <3>2. Http!UpgradeHeaders = {a, b, c, d}
      BY DEF Http!UpgradeHeaders
    <3> HIDE DEF a, b, c, d
    <3> DEFINE s == <<a, b, c, d>>
    <3>3. DOMAIN s = 1..4 /\ s[1] = a /\ s[2] = b /\ s[3] = c /\ s[4] = d
      OBVIOUS
    <3> HIDE DEF s
    <3>4. {s[i] : i \in DOMAIN s} = {a, b, c, d}
      BY <3>3
    <3>5. ToSet(s) = {a, b, c, d} /\ Http!ToSet(s) = {a, b, c, d}
      BY <3>4 DEF ToSet, Http!ToSet
    <3> HIDE DEF F, G
    <3> QED
      BY <3>1, <3>2, <3>5 DEF s
  <2> HIDE DEF F, G
  <2>3. Http!UpgradeHeaders \subseteq F /\ {"Upgrade: websocket", "Connection: Upgrade"} \subseteq G
    BY <2>2 DEF Http!UpgradeHeaders
  <2> QED
    BY <1>1, <1>4, <2>3 DEF ValidHandshake, Http!is_websocket_upgrade, F, G
<1> QED
  BY <1>0, <1>2, <1>3, <1>4

-----------------------------------------------------------------------------
(***************************************************************************)
(* What a turn of the decode loop can do: end it, end the connection, or   *)
(* give the next message to the handler in the state it is meant for.      *)
(***************************************************************************)
Rest == UNCHANGED <<kind, handler, input, arrived, commands>>

Caught ==
  /\ pc = "decode" /\ decoded = arrived
  /\ pc' = "select" /\ failure' = failure
  /\ UNCHANGED <<state, decoded, pending, wire>> /\ Rest

Confused ==
  /\ pc = "decode" /\ decoded < Len(sent)
  /\ \/ IsFrame(sent[decoded + 1]) /\ state # "Frames"
     \/ ~IsFrame(sent[decoded + 1]) /\ state = "Frames"
  /\ pc' \in {"select", "ended"} /\ failure' \in {failure, "Misread"}
  /\ UNCHANGED <<state, decoded, pending, wire>> /\ Rest

Failed ==
  /\ pc = "decode" /\ decoded < Len(sent)
  /\ pc' = "ended" /\ failure' \in {"Decode", "FrameTooLarge"}
  /\ UNCHANGED <<state, decoded, pending, wire>> /\ Rest

\* A message to be handled, and the state its decoding leaves
Suits(m, st) ==
  \/ state = "Http" /\ st = "Http" /\ m.type \in {"plain", "upgrade"}
  \/ state = "Handshake" /\ st = "Frames" /\ m.type = "upgrade"
  \/ state = "Frames" /\ st = "Frames" /\ m.type = "frame"

Handled(st) ==
  /\ pc = "decode" /\ decoded < arrived
  /\ Suits(sent[decoded + 1], st)
  /\ Handle(sent[decoded + 1], st) /\ Rest

LEMMA DecodeCases ==
  ASSUME TypeOK, Decode
  PROVE  Caught \/ Confused \/ Failed \/ \E st \in {"Http", "Frames"} : Handled(st)
<1>0. /\ pc = "decode" /\ Rest /\ state \in {"Http", "Handshake", "Frames"}
      /\ arrived \in Nat /\ decoded \in Nat /\ decoded <= arrived /\ arrived <= Len(sent)
      /\ Len(sent) \in Nat
  BY DEF Decode, Rest, TypeOK
<1>1. CASE decoded = arrived
  <2> DEFINE m == sent[decoded + 1]
  <2>1. NeedMore \/ (decoded < Len(sent) /\ DecodePart(m))
    BY <1>0, <1>1 DEF Decode
  <2>2. CASE NeedMore
    BY <1>0, <1>1, <2>2 DEF NeedMore, Caught
  <2>3. CASE decoded < Len(sent) /\ state # "Frames" /\ Fail("FrameTooLarge")
    BY <1>0, <2>3 DEF Fail, Failed
  <2>4. CASE decoded < Len(sent) /\ state # "Frames" /\ IsFrame(m) /\ Fail("Misread")
    BY <1>0, <2>4 DEF Fail, Confused
  <2> QED
    BY <2>1, <2>2, <2>3, <2>4 DEF DecodePart
<1>2. CASE decoded # arrived
  <2> DEFINE m == sent[decoded + 1]
  <2>1. decoded < arrived /\ decoded < Len(sent)
    BY <1>0, <1>2
  <2>2. m \in Message
    BY <2>1 DEF TypeOK
  <2>3. m.type \in Types
    BY <2>2 DEF Message
  <2>4. ASSUME Misread, (IsFrame(m) /\ state # "Frames") \/ (~IsFrame(m) /\ state = "Frames")
        PROVE  Confused
    BY <1>0, <2>1, <2>4 DEF Misread, NeedMore, Fail, Confused
  <2>5. ASSUME Fail("Decode") \/ HeadFails(m)
        PROVE  Failed
    BY <1>0, <2>1, <2>5 DEF Fail, HeadFails, Failed
  <2>6. ASSUME NEW st \in {"Http", "Frames"}, Handle(m, st), Suits(m, st)
        PROVE  Handled(st)
    BY <1>0, <2>1, <2>6 DEF Handled
  <2>7. CASE state = "Http"
    <3>1. DecodeHttp(m)
      BY <1>2, <2>1, <2>7 DEF Decode
    <3>2. CASE IsFrame(m)
      <4>1. Misread
        BY <3>1, <3>2 DEF DecodeHttp, HeadFails, ReadableHead, IsFrame
      <4> QED
        <5>1. (IsFrame(m) /\ state # "Frames") \/ (~IsFrame(m) /\ state = "Frames")
          BY <2>7, <3>2
        <5> QED
          BY <2>4, <4>1, <5>1
    <3>3. CASE HeadFails(m)
      BY <2>5, <3>3
    <3>4. CASE ~IsFrame(m) /\ ~HeadFails(m)
      <4>0. ReadableHead(m)
        BY <3>1, <3>4 DEF DecodeHttp
      <4>1. IF Http!is_websocket_upgrade(Request(m)) => ValidHandshake(Request(m))
            THEN Handle(m, state) ELSE Fail("Decode")
        BY <3>1, <3>4 DEF DecodeHttp
      <4> HIDE DEF m
      <4>2. m.type \in {"plain", "upgrade", "incomplete"}
        BY <4>0 DEF ReadableHead
      <4>3. Fail("Decode") \/ (Handle(m, state) /\ m.type \in {"plain", "upgrade"})
        BY <2>2, <4>0, <4>1, <4>2, HandshakeFields
      <4>4. CASE Fail("Decode")
        BY <2>5, <4>4
      <4>5. CASE Handle(m, state) /\ m.type \in {"plain", "upgrade"}
        BY <2>6, <2>7, <4>5 DEF Suits
      <4> QED
        BY <4>3, <4>4, <4>5
    <3> QED
      BY <3>2, <3>3, <3>4
  <2>8. CASE state = "Handshake"
    <3>1. DecodeHandshake(m)
      BY <1>2, <2>1, <2>8 DEF Decode
    <3>2. CASE IsFrame(m)
      <4>1. Misread
        BY <3>1, <3>2 DEF DecodeHandshake, HeadFails, ReadableHead, IsFrame
      <4> QED
        <5>1. (IsFrame(m) /\ state # "Frames") \/ (~IsFrame(m) /\ state = "Frames")
          BY <2>8, <3>2
        <5> QED
          BY <2>4, <4>1, <5>1
    <3>3. CASE HeadFails(m)
      BY <2>5, <3>3
    <3>4. CASE ~IsFrame(m) /\ ~HeadFails(m)
      <4>0. ReadableHead(m)
        BY <3>1, <3>4 DEF DecodeHandshake
      <4>1. Fail("Decode") \/ (ValidHandshake(Request(m)) /\ Handle(m, "Frames"))
        BY <3>1, <3>4 DEF DecodeHandshake
      <4> HIDE DEF m
      <4>2. Fail("Decode") \/ (Handle(m, "Frames") /\ m.type = "upgrade")
        BY <2>2, <4>0, <4>1, HandshakeFields
      <4> QED
        BY <2>5, <2>6, <2>8, <4>2 DEF Suits
    <3> QED
      BY <3>2, <3>3, <3>4
  <2>9. CASE state = "Frames"
    <3>1. DecodeFrames(m)
      BY <1>2, <2>1, <2>9 DEF Decode
    <3>2. CASE IsFrame(m)
      <4>1. Handle(m, "Frames") /\ m.type = "frame"
        BY <2>9, <3>1, <3>2 DEF DecodeFrames, IsFrame
      <4> QED
        BY <2>6, <2>9, <4>1 DEF Suits
    <3>3. CASE ~IsFrame(m)
      <4>1. Misread
        BY <3>1, <3>3 DEF DecodeFrames
      <4> QED
        <5>1. (IsFrame(m) /\ state # "Frames") \/ (~IsFrame(m) /\ state = "Frames")
          BY <2>9, <3>3
        <5> QED
          BY <2>4, <4>1, <5>1
    <3> QED
      BY <3>2, <3>3
  <2> QED
    BY <1>0, <2>7, <2>8, <2>9
<1> QED
  BY <1>1, <1>2

(***************************************************************************)
(* What a handler makes of a message: it answers, fails, passes a frame    *)
(* over, or leaves a request to a task.                                    *)
(***************************************************************************)
Answer(m) ==
  [type |-> CASE m.type = "plain"   -> "response"
              [] m.type = "upgrade" -> "101"
              [] m.type = "frame"   -> "answer",
   id   |-> m.id]

Taken(st) ==
  /\ pc = "decode" /\ decoded < arrived /\ decoded' = decoded + 1
  /\ Suits(sent[decoded + 1], st) /\ Rest

Routed(st) ==
  /\ Taken(st) /\ handler = "router"
  /\ ~Refused(Answer(sent[decoded + 1]), st)
  /\ wire' = Append(wire, Answer(sent[decoded + 1]))
  /\ state' = IF sent[decoded + 1].type = "upgrade" THEN "Frames" ELSE st
  /\ UNCHANGED <<pending, pc, failure>>

Stopped(st) ==
  /\ Taken(st)
  /\ pc' = "ended" /\ failure' \in {"Encode", "Service"} /\ state' = st
  /\ UNCHANGED <<pending, wire>>

Skipped(st) ==
  /\ Taken(st) /\ handler = "router" /\ IsFrame(sent[decoded + 1]) /\ state' = st
  /\ UNCHANGED <<pending, wire, pc, failure>>

Deferred(st) ==
  /\ Taken(st) /\ handler = "deferring" /\ state' = st
  /\ pending' = pending \cup (IF IsFrame(sent[decoded + 1]) THEN {} ELSE {sent[decoded + 1]})
  /\ UNCHANGED <<wire, pc, failure>>

LEMMA HandledCases ==
  ASSUME TypeOK, NEW st \in {"Http", "Frames"}, Handled(st)
  PROVE  Routed(st) \/ Stopped(st) \/ Skipped(st) \/ Deferred(st)
<1> DEFINE m == sent[decoded + 1]
<1>1. m.type \in {"plain", "upgrade", "frame"}
  BY DEF Handled, Suits
<1>2. /\ Taken(st)
      /\ (handler = "router" /\ Route(m, st)) \/ (handler = "deferring" /\ Defer(m, st))
  BY DEF Handled, Handle, Taken
<1> HIDE DEF m
<1>3. Answer(m).type = "101" <=> m.type = "upgrade"
  BY <1>1 DEF Answer
<1>4. ASSUME handler = "router", Route(m, st)
      PROVE  Routed(st) \/ Stopped(st) \/ Skipped(st)
  <2>1. pending' = pending
    BY <1>4 DEF Route
  <2>2. \/ encode(Answer(m), st)
        \/ IsFrame(m) /\ state' = st /\ UNCHANGED <<wire, pc, failure>>
        \/ pc' = "ended" /\ failure' = "Service" /\ state' = st /\ UNCHANGED wire
    BY <1>4 DEF Route, Answer
  <2>3. CASE encode(Answer(m), st)
    <3>1. CASE Written(Answer(m), st)
      BY <1>2, <1>3, <1>4, <2>1, <3>1 DEF Written, Routed, m
    <3>2. CASE ~Written(Answer(m), st)
      BY <1>2, <2>1, <2>3, <3>2 DEF encode, Stopped
    <3> QED
      BY <3>1, <3>2
  <2>4. CASE IsFrame(m) /\ state' = st /\ UNCHANGED <<wire, pc, failure>>
    BY <1>2, <1>4, <2>1, <2>4 DEF Skipped, m
  <2>5. CASE pc' = "ended" /\ failure' = "Service" /\ state' = st /\ UNCHANGED wire
    BY <1>2, <2>1, <2>5 DEF Stopped
  <2> QED
    BY <2>2, <2>3, <2>4, <2>5
<1>5. ASSUME handler = "deferring", Defer(m, st)
      PROVE  Deferred(st)
  BY <1>2, <1>5 DEF Defer, Deferred, m
<1> QED
  BY <1>2, <1>4, <1>5

(***************************************************************************)
(* What the task makes of a command: it writes it, or the codec refuses.   *)
(***************************************************************************)
Shown ==
  /\ pc = "select" /\ commands # <<>> /\ commands' = Tail(commands)
  /\ ~Refused(Head(commands), state)
  /\ wire' = Append(wire, Head(commands))
  /\ state' = IF Head(commands).type = "101" THEN "Frames" ELSE state
  /\ UNCHANGED <<kind, handler, input, arrived, decoded, pending, pc, failure>>

Denied ==
  /\ pc = "select" /\ commands # <<>> /\ commands' = Tail(commands)
  /\ Refused(Head(commands), state)
  /\ pc' = "ended" /\ failure' = "Encode"
  /\ UNCHANGED <<kind, state, handler, input, arrived, decoded, pending, wire>>

Decodes(st) == Routed(st) \/ Stopped(st) \/ Skipped(st) \/ Deferred(st)

Steps ==
  \/ ClientSends \/ TaskAnswers \/ TaskPushes \/ Shown \/ Denied \/ Read
  \/ Caught \/ Confused \/ Failed
  \/ \E st \in {"Http", "Frames"} : Decodes(st)

LEMMA NextSteps == ASSUME TypeOK, Next PROVE Steps
<1>1. ASSUME Command PROVE Shown \/ Denied
  BY <1>1 DEF Command, encode, Written, Shown, Denied
<1>2. ASSUME Decode PROVE Steps
  <2>1. CASE Caught \/ Confused \/ Failed
    BY <2>1 DEF Steps
  <2>2. CASE \E st \in {"Http", "Frames"} : Handled(st)
    BY <2>2, HandledCases DEF Steps, Decodes
  <2> QED
    BY <1>2, <2>1, <2>2, DecodeCases
<1> QED
  BY <1>1, <1>2 DEF Next, Steps

-----------------------------------------------------------------------------
(***************************************************************************)
(* Type correctness.                                                       *)
(***************************************************************************)
LEMMA TypeInit == Init => TypeOK
BY CodecsAssumption, HandlersAssumption DEF Init, Start, TypeOK

LEMMA AnswerType ==
  ASSUME NEW m \in Message, NEW st, Suits(m, st)
  PROVE  /\ Answer(m) \in Sendable /\ Answer(m).id = m.id
         /\ Answer(m).type = "101" <=> m.type = "upgrade"
         /\ IsAnswer(Answer(m)) <=> ~IsFrame(m)
<1>1. m.type \in {"plain", "upgrade", "frame"} /\ m.id \in Nat
  BY DEF Suits, Message
<1> QED
  BY <1>1 DEF Answer, Sendable, IsAnswer, IsFrame

LEMMA TakenType ==
  ASSUME TypeOK, NEW st \in {"Http", "Frames"}, Taken(st)
  PROVE  /\ sent[decoded + 1] \in Message /\ decoded + 1 \in DOMAIN sent
         /\ decoded' = decoded + 1 /\ decoded' \in 0..arrived' /\ decoded \in Nat
<1>1. /\ sent \in Seq(Message) /\ arrived \in 0..Len(sent) /\ decoded \in 0..arrived
      /\ decoded < arrived /\ decoded' = decoded + 1 /\ arrived' = arrived
  BY DEF TypeOK, Taken, Rest
<1> QED
  BY <1>1

LEMMA TypeKept == ASSUME TypeOK, Steps PROVE TypeOK'
<1>1. ASSUME ClientSends PROVE TypeOK'
  <2>1. PICK type \in Types : sent' = Append(sent, [type |-> type, id |-> Len(sent) + 1])
    BY <1>1 DEF ClientSends
  <2>2. sent' \in Seq(Message) /\ Len(sent') = Len(sent) + 1
    BY <2>1 DEF TypeOK, Message
  <2> QED
    BY <1>1, <2>2 DEF ClientSends, TypeOK
<1>2. ASSUME TaskAnswers PROVE TypeOK'
  <2>1. PICK m \in pending :
          /\ pending' = pending \ {m}
          /\ commands' = Append(commands,
               [type |-> IF m.type = "upgrade" THEN "101" ELSE "response", id |-> m.id])
    BY <1>2 DEF TaskAnswers
  <2>2. m.id \in Nat
    BY DEF TypeOK, Message
  <2>3. [type |-> IF m.type = "upgrade" THEN "101" ELSE "response", id |-> m.id] \in Queued
    BY <2>2 DEF Queued
  <2>4. commands' \in Seq(Queued) /\ pending' \in SUBSET Message
    BY <2>1, <2>3 DEF TypeOK
  <2> QED
    BY <1>2, <2>4 DEF TaskAnswers, input, TypeOK
<1>3. ASSUME TaskPushes PROVE TypeOK'
  <2>1. commands' \in Seq(Queued)
    BY <1>3 DEF TaskPushes, TypeOK, Queued
  <2> QED
    BY <1>3, <2>1 DEF TaskPushes, input, TypeOK
<1>4. ASSUME commands # <<>>
      PROVE  Tail(commands) \in Seq(Queued) /\ Head(commands) \in Sendable
  <2>1. Tail(commands) \in Seq(Queued) /\ Head(commands) \in Queued
    BY <1>4 DEF TypeOK
  <2> QED
    BY <2>1 DEF Queued, Sendable
<1>5. ASSUME Shown PROVE TypeOK'
  <2>1. wire' \in Seq(Sendable) /\ commands' \in Seq(Queued)
    BY <1>4, <1>5 DEF Shown, TypeOK
  <2>2. state' \in {"Http", "Handshake", "Frames"}
    BY <1>5 DEF Shown, TypeOK
  <2> QED
    BY <1>5, <2>1, <2>2 DEF Shown, input, TypeOK
<1>6. ASSUME Denied PROVE TypeOK'
  BY <1>4, <1>6 DEF Denied, input, TypeOK
<1>7. ASSUME Read PROVE TypeOK'
  <2>0. /\ sent \in Seq(Message) /\ arrived \in 0..Len(sent) /\ decoded \in 0..arrived
        /\ arrived' \in arrived..Len(sent)
    BY <1>7 DEF Read, TypeOK
  <2>1. arrived' \in 0..Len(sent) /\ decoded \in 0..arrived'
    BY <2>0
  <2> QED
    BY <1>7, <2>1 DEF Read, input, TypeOK
<1>8. ASSUME Caught \/ Confused \/ Failed PROVE TypeOK'
  <2>1. pc' \in {"select", "ended"} /\ failure' \in {failure, "Misread", "Decode", "FrameTooLarge"}
    BY <1>8 DEF Caught, Confused, Failed
  <2> QED
    BY <1>8, <2>1 DEF Caught, Confused, Failed, Rest, input, TypeOK
<1>9. ASSUME NEW st \in {"Http", "Frames"}, Decodes(st) PROVE TypeOK'
  <2>1. Taken(st)
    BY <1>9 DEF Decodes, Routed, Stopped, Skipped, Deferred
  <2>2. sent[decoded + 1] \in Message /\ decoded' \in 0..arrived'
    BY <2>1, TakenType
  <2>3. Suits(sent[decoded + 1], st)
    BY <2>1 DEF Taken
  <2>4. Answer(sent[decoded + 1]) \in Sendable
    BY <2>2, <2>3, AnswerType
  <2>5. wire' \in Seq(Sendable)
    <3> DEFINE a == Answer(sent[decoded + 1])
    <3>1. wire' = wire \/ wire' = Append(wire, a)
      BY <1>9 DEF Decodes, Routed, Stopped, Skipped, Deferred
    <3>2. a \in Sendable /\ wire \in Seq(Sendable)
      BY <2>4 DEF TypeOK
    <3> HIDE DEF a
    <3> QED
      BY <3>1, <3>2
  <2>6. pending' \in SUBSET Message
    BY <1>9, <2>2 DEF Decodes, Routed, Stopped, Skipped, Deferred, TypeOK
  <2>7. state' \in {"Http", "Handshake", "Frames"}
    BY <1>9 DEF Decodes, Routed, Stopped, Skipped, Deferred, TypeOK
  <2>8. pc' \in {"select", "decode", "ended"} /\ failure' \in {failure, "Encode", "Service"}
    BY <1>9 DEF Decodes, Routed, Stopped, Skipped, Deferred, TypeOK
  <2> QED
    BY <2>1, <2>2, <2>5, <2>6, <2>7, <2>8 DEF Taken, Rest, input, TypeOK
<1> QED
  BY <1>1, <1>2, <1>3, <1>5, <1>6, <1>7, <1>8, <1>9 DEF Steps

-----------------------------------------------------------------------------
(***************************************************************************)
(* What only grows: the messages sent and decoded, and the wire.           *)
(***************************************************************************)
LEMMA SentGrows ==
  ASSUME TypeOK, Steps
  PROVE  /\ DOMAIN sent \subseteq DOMAIN sent' /\ decoded <= decoded' /\ Len(sent) <= Len(sent')
         /\ \A i \in DOMAIN sent : sent'[i] = sent[i]
         /\ \A i \in 1..decoded : i \in 1..decoded' /\ sent'[i] = sent[i]
<1>0. sent \in Seq(Message) /\ decoded \in Nat /\ decoded \in 0..Len(sent)
  BY DEF TypeOK
<1>1. \/ sent' = sent /\ decoded' \in {decoded, decoded + 1}
      \/ decoded' = decoded /\ \E type \in Types : sent' = Append(sent, [type |-> type, id |-> Len(sent) + 1])
  <2>1. ASSUME NEW st, Decodes(st) PROVE sent' = sent /\ decoded' = decoded + 1
    BY <2>1 DEF Decodes, Routed, Stopped, Skipped, Deferred, Taken, Rest, input
  <2>2. ASSUME ClientSends
        PROVE  decoded' = decoded /\ \E type \in Types : sent' = Append(sent, [type |-> type, id |-> Len(sent) + 1])
    BY <2>2 DEF ClientSends
  <2>3. ASSUME TaskAnswers \/ TaskPushes \/ Shown \/ Denied \/ Read \/ Caught \/ Confused \/ Failed
        PROVE  sent' = sent /\ decoded' = decoded
    BY <2>3 DEF TaskAnswers, TaskPushes, Shown, Denied, Read, Caught, Confused, Failed, Rest, input
  <2> QED
    BY <2>1, <2>2, <2>3 DEF Steps
<1>2. CASE sent' = sent /\ decoded' \in {decoded, decoded + 1}
  BY <1>0, <1>2
<1>3. CASE decoded' = decoded /\ \E type \in Types : sent' = Append(sent, [type |-> type, id |-> Len(sent) + 1])
  <2>1. PICK type : sent' = Append(sent, [type |-> type, id |-> Len(sent) + 1])
    BY <1>3
  <2> DEFINE e == [type |-> type, id |-> Len(sent) + 1]
  <2> HIDE DEF e
  <2>2. sent' = Append(sent, e)
    BY <2>1 DEF e
  <2> QED
    BY <1>0, <1>3, <2>2
<1> QED
  BY <1>1, <1>2, <1>3

LEMMA WireGrows ==
  ASSUME TypeOK, Steps
  PROVE  /\ DOMAIN wire \subseteq DOMAIN wire'
         /\ \A j \in DOMAIN wire : wire'[j] = wire[j]
         /\ Switched => Switched'
<1>0. wire \in Seq(Sendable)
  BY DEF TypeOK
<1>1. wire' = wire \/ \E e : wire' = Append(wire, e)
  <2>1. ASSUME NEW st, Decodes(st) PROVE wire' = wire \/ \E e : wire' = Append(wire, e)
    BY <2>1 DEF Decodes, Routed, Stopped, Skipped, Deferred
  <2>2. ASSUME Shown PROVE \E e : wire' = Append(wire, e)
    BY <2>2 DEF Shown
  <2>3. ASSUME ClientSends \/ TaskAnswers \/ TaskPushes \/ Denied \/ Read \/ Caught \/ Confused \/ Failed
        PROVE  wire' = wire
    BY <2>3 DEF ClientSends, TaskAnswers, TaskPushes, Denied, Read, Caught, Confused, Failed
  <2> QED
    BY <2>1, <2>2, <2>3 DEF Steps
<1>2. DOMAIN wire \subseteq DOMAIN wire' /\ \A j \in DOMAIN wire : wire'[j] = wire[j]
  BY <1>0, <1>1
<1> QED
  BY <1>2 DEF Switched

-----------------------------------------------------------------------------
(***************************************************************************)
(* What the client keeps to.                                               *)
(***************************************************************************)
ClientInv == Numbered /\ AsksOnce /\ FramesLater /\ Patient

LEMMA ClientKept == ASSUME TypeOK, ClientInv, Steps PROVE ClientInv'
<1>0. sent \in Seq(Message) /\ eager' = eager
  <2>1. eager' = eager
    <3>1. ASSUME NEW st, Decodes(st) PROVE eager' = eager
      BY <3>1 DEF Decodes, Routed, Stopped, Skipped, Deferred, Taken, Rest, input
    <3> QED
      BY <3>1 DEF Steps, ClientSends, TaskAnswers, TaskPushes, Shown, Denied, Read, Caught, Confused,
                  Failed, Rest, input
  <2> QED
    BY <2>1 DEF TypeOK
<1>1. CASE sent' = sent
  <2>1. Patient'
    BY <1>0, <1>1, WireGrows DEF ClientInv, Patient, IsFrame
  <2> QED
    BY <1>1, <2>1 DEF ClientInv, Numbered, AsksOnce, FramesLater, IsFrame
<1>2. CASE ClientSends
  <2>1. PICK type \in Types :
          /\ IF type = "frame" THEN Asked # {} /\ (eager \/ Switched) ELSE Asked = {}
          /\ sent' = Append(sent, [type |-> type, id |-> Len(sent) + 1])
    BY <1>2 DEF ClientSends
  <2> DEFINE e == [type |-> type, id |-> Len(sent) + 1]
  <2>2. e.type = type /\ e.id = Len(sent) + 1 /\ sent' = Append(sent, e)
    BY <2>1
  <2> HIDE DEF e
  <2>3. /\ Len(sent') = Len(sent) + 1 /\ sent'[Len(sent) + 1] = e
        /\ DOMAIN sent' = 1..(Len(sent) + 1) /\ DOMAIN sent = 1..Len(sent) /\ Len(sent) \in Nat
        /\ \A i \in 1..Len(sent) : sent'[i] = sent[i]
    BY <1>0, <2>2
  <2>4. type # "frame" => \A i \in DOMAIN sent : sent[i].type # "upgrade"
    BY <2>1 DEF Asked
  <2>5. type = "frame" => \E i \in DOMAIN sent : sent[i].type = "upgrade"
    BY <2>1 DEF Asked
  <2>6. Numbered'
    BY <2>2, <2>3 DEF ClientInv, Numbered
  <2>7. AsksOnce'
    <3> SUFFICES ASSUME NEW i \in DOMAIN sent', NEW j \in DOMAIN sent',
                        sent'[i].type = "upgrade", i < j
                 PROVE  sent'[j].type = "frame"
      BY DEF AsksOnce, IsFrame
    <3>1. i \in DOMAIN sent /\ sent[i].type = "upgrade"
      BY <2>3
    <3>2. type = "frame"
      BY <2>4, <3>1
    <3>3. CASE j \in DOMAIN sent
      BY <2>3, <3>1, <3>3 DEF ClientInv, AsksOnce, IsFrame
    <3>4. CASE j = Len(sent) + 1
      BY <2>2, <2>3, <3>2, <3>4
    <3> QED
      BY <2>3, <3>3, <3>4
  <2>8. FramesLater'
    <3> SUFFICES ASSUME NEW j \in DOMAIN sent', sent'[j].type = "frame"
                 PROVE  \E i \in 1..(j - 1) : sent'[i].type = "upgrade"
      BY DEF FramesLater, IsFrame
    <3>1. CASE j \in DOMAIN sent
      <4>1. PICK i \in 1..(j - 1) : sent[i].type = "upgrade"
        BY <2>3, <3>1 DEF ClientInv, FramesLater, IsFrame
      <4>2. i \in DOMAIN sent
        BY <2>3, <3>1
      <4> QED
        BY <2>3, <4>1, <4>2
    <3>2. CASE j = Len(sent) + 1
      BY <2>2, <2>3, <2>5, <3>2
    <3> QED
      BY <2>3, <3>1, <3>2
  <2>9. Patient'
    <3> SUFFICES ASSUME ~eager', \E j \in DOMAIN sent' : sent'[j].type = "frame" PROVE Switched'
      BY DEF Patient, IsFrame
    <3>1. \/ \E j \in DOMAIN sent : sent[j].type = "frame"
          \/ type = "frame"
      BY <2>2, <2>3
    <3> QED
      BY <1>0, <2>1, <3>1, WireGrows DEF ClientInv, Patient, IsFrame
  <2> QED
    BY <2>6, <2>7, <2>8, <2>9 DEF ClientInv
<1>3. sent' = sent \/ ClientSends
  <2>1. ASSUME NEW st, Decodes(st) PROVE sent' = sent
    BY <2>1 DEF Decodes, Routed, Stopped, Skipped, Deferred, Taken, Rest, input
  <2> QED
    BY <2>1 DEF Steps, TaskAnswers, TaskPushes, Shown, Denied, Read, Caught, Confused, Failed, Rest, input
<1> QED
  BY <1>1, <1>2, <1>3

-----------------------------------------------------------------------------
(***************************************************************************)
(* Where every answer comes from.                                          *)
(***************************************************************************)
SourceInv == PendingSource /\ QueueSource /\ WireSource

Late(m) == [type |-> IF m.type = "upgrade" THEN "101" ELSE "response", id |-> m.id]
Push    == [type |-> "push", id |-> 0]

Popped == commands # <<>> /\ commands' = Tail(commands)

LEMMA QueueCases ==
  ASSUME Steps
  PROVE  \/ commands' = commands
         \/ TaskAnswers /\ \E m \in pending : commands' = Append(commands, Late(m)) /\ pending' = pending \ {m}
         \/ TaskPushes /\ commands' = Append(commands, Push)
         \/ Popped /\ (Shown \/ Denied)
<1>1. ASSUME NEW st, Decodes(st) PROVE commands' = commands
  BY <1>1 DEF Decodes, Routed, Stopped, Skipped, Deferred, Taken, Rest
<1>2. ASSUME ClientSends \/ Read \/ Caught \/ Confused \/ Failed PROVE commands' = commands
  BY <1>2 DEF ClientSends, Read, Caught, Confused, Failed, Rest
<1>3. ASSUME TaskAnswers
      PROVE  \E m \in pending : commands' = Append(commands, Late(m)) /\ pending' = pending \ {m}
  BY <1>3 DEF TaskAnswers, Late
<1>4. ASSUME TaskPushes PROVE commands' = Append(commands, Push)
  BY <1>4 DEF TaskPushes, Push
<1>5. ASSUME Shown \/ Denied PROVE Popped
  BY <1>5 DEF Shown, Denied, Popped
<1> QED
  BY <1>1, <1>2, <1>3, <1>4, <1>5 DEF Steps

LEMMA WireCases ==
  ASSUME Steps
  PROVE  \/ wire' = wire /\ ~Shown
         \/ Shown /\ wire' = Append(wire, Head(commands))
         \/ \E st \in {"Http", "Frames"} :
              Routed(st) /\ wire' = Append(wire, Answer(sent[decoded + 1]))
<1>1. ASSUME NEW st, Stopped(st) \/ Skipped(st) \/ Deferred(st) PROVE wire' = wire /\ pc = "decode"
  BY <1>1 DEF Stopped, Skipped, Deferred, Taken
<1>2. ASSUME Shown PROVE pc = "select" /\ wire' = Append(wire, Head(commands))
  BY <1>2 DEF Shown
<1>3. ASSUME ClientSends \/ TaskAnswers \/ TaskPushes \/ Denied \/ Read \/ Caught \/ Confused \/ Failed
      PROVE  wire' = wire
  BY <1>3 DEF ClientSends, TaskAnswers, TaskPushes, Denied, Read, Caught, Confused, Failed
<1>4. ASSUME NEW st, Routed(st) PROVE wire' = Append(wire, Answer(sent[decoded + 1]))
  BY <1>4 DEF Routed
<1> QED
  BY <1>1, <1>2, <1>3, <1>4 DEF Steps, Decodes

LEMMA QueuePops ==
  ASSUME TypeOK, Popped
  PROVE  /\ 1 \in DOMAIN commands /\ Head(commands) = commands[1]
         /\ Len(commands) \in Nat /\ DOMAIN commands = 1..Len(commands)
         /\ DOMAIN commands' = 1..(Len(commands) - 1)
         /\ \A i \in DOMAIN commands' : i + 1 \in DOMAIN commands /\ commands'[i] = commands[i + 1]
BY DEF TypeOK, Popped

LEMMA AnswerKept ==
  ASSUME TypeOK, Steps, NEW m, AnswerOf(m) PROVE AnswerOf(m)'
BY SentGrows DEF AnswerOf, IsFrame

LEMMA RequestKept ==
  ASSUME TypeOK, Steps
  PROVE  /\ RequestAt \subseteq RequestAt'
         /\ \A n \in RequestAt' : n \in RequestAt \/ (n = decoded + 1 /\ decoded' = decoded + 1)
<1>1. decoded \in Nat /\ decoded' \in {decoded, decoded + 1}
  <2>1. ASSUME NEW st, Decodes(st) PROVE decoded' = decoded + 1
    BY <2>1 DEF Decodes, Routed, Stopped, Skipped, Deferred, Taken
  <2>2. ASSUME ClientSends \/ TaskAnswers \/ TaskPushes \/ Shown \/ Denied \/ Read \/ Caught \/ Confused \/ Failed
        PROVE  decoded' = decoded
    BY <2>2 DEF ClientSends, TaskAnswers, TaskPushes, Shown, Denied, Read, Caught, Confused, Failed
  <2> QED
    BY <2>1, <2>2 DEF Steps, TypeOK
<1> QED
  BY <1>1, SentGrows DEF RequestAt, IsFrame

LEMMA SourceKept ==
  ASSUME TypeOK, ClientInv, SourceInv, Steps, TypeOK' PROVE SourceInv'
<1>1. PendingSource'
  <2>1. ASSUME NEW m \in pending, m.id \in RequestAt, m = sent[m.id]
        PROVE  m.id \in RequestAt' /\ m = sent'[m.id]
    BY <2>1, SentGrows, RequestKept DEF RequestAt
  <2>2. CASE pending' \subseteq pending
    BY <2>1, <2>2 DEF SourceInv, PendingSource
  <2>3. ASSUME NEW st \in {"Http", "Frames"}, Deferred(st)
        PROVE  PendingSource'
    <3> DEFINE m == sent[decoded + 1]
    <3>1. Taken(st)
      BY <2>3 DEF Deferred
    <3>2. /\ decoded + 1 \in DOMAIN sent /\ decoded' = decoded + 1 /\ decoded \in Nat
          /\ sent' = sent
      BY <3>1, TakenType DEF Taken, Rest, input
    <3>3. m.id = decoded + 1
      BY <3>2 DEF ClientInv, Numbered
    <3>4. CASE IsFrame(m)
      <4>1. pending' = pending
        BY <2>3, <3>4 DEF Deferred
      <4> QED
        BY <2>2, <4>1
    <3>5. CASE ~IsFrame(m)
      <4>1. pending' = pending \cup {m}
        BY <2>3, <3>5 DEF Deferred
      <4>2. m.id \in RequestAt' /\ m = sent'[m.id]
        BY <3>2, <3>3, <3>5 DEF RequestAt, IsFrame
      <4> HIDE DEF m
      <4> QED
        BY <2>1, <4>1, <4>2 DEF SourceInv, PendingSource
    <3> QED
      BY <3>4, <3>5
  <2>4. ASSUME NEW st, Routed(st) \/ Stopped(st) \/ Skipped(st) PROVE pending' = pending
    BY <2>4 DEF Routed, Stopped, Skipped
  <2>5. ASSUME ClientSends \/ TaskAnswers \/ TaskPushes \/ Shown \/ Denied \/ Read \/ Caught \/ Confused \/ Failed
        PROVE  pending' \subseteq pending
    BY <2>5 DEF ClientSends, TaskAnswers, TaskPushes, Shown, Denied, Read, Caught, Confused, Failed
  <2> QED
    BY <2>2, <2>3, <2>4, <2>5 DEF Steps, Decodes
<1>2. QueueSource'
  <2> SUFFICES ASSUME NEW i \in DOMAIN commands', commands'[i].type # "push"
               PROVE  AnswerOf(commands[i])'
    BY DEF QueueSource
  <2>0. commands \in Seq(Queued)
    BY DEF TypeOK
  <2>1. ASSUME NEW j \in DOMAIN commands, commands'[i] = commands[j]
        PROVE  AnswerOf(commands[i])'
    <3>1. AnswerOf(commands[j])
      BY <2>1 DEF SourceInv, QueueSource
    <3>2. \A m : AnswerOf(m) => AnswerOf(m)'
      BY AnswerKept
    <3> QED
      BY <2>1, <3>1, <3>2 DEF AnswerOf
  <2>2. CASE commands' = commands
    BY <2>1, <2>2
  <2>3. ASSUME NEW m \in pending, commands' = Append(commands, Late(m))
        PROVE  AnswerOf(commands[i])'
    <3>1. CASE i \in DOMAIN commands
      BY <2>0, <2>1, <2>3, <3>1
    <3>2. CASE i \notin DOMAIN commands
      <4>1. commands'[i] = Late(m)
        BY <2>0, <2>3, <3>2
      <4>2. m.id \in RequestAt /\ m = sent[m.id]
        BY DEF SourceInv, PendingSource
      <4>3. Late(m).id = m.id /\ (Late(m).type = "101" <=> m.type = "upgrade")
        BY DEF Late
      <4>4. AnswerOf(Late(m))
        BY <4>2, <4>3 DEF AnswerOf, RequestAt
      <4>5. \A e : AnswerOf(e) => AnswerOf(e)'
        BY AnswerKept
      <4> QED
        BY <4>1, <4>4, <4>5 DEF AnswerOf
    <3> QED
      BY <3>1, <3>2
  <2>4. CASE commands' = Append(commands, Push)
    <3>1. CASE i \in DOMAIN commands
      BY <2>0, <2>1, <2>4, <3>1
    <3>2. CASE i \notin DOMAIN commands
      <4>1. commands'[i] = Push
        BY <2>0, <2>4, <3>2
      <4> QED
        BY <4>1 DEF Push
    <3> QED
      BY <3>1, <3>2
  <2>5. CASE Popped
    BY <2>1, <2>5, QueuePops
  <2> QED
    BY <2>2, <2>3, <2>4, <2>5, QueueCases
<1>3. WireSource'
  <2> SUFFICES ASSUME NEW j \in DOMAIN wire', IsAnswer(wire'[j])
               PROVE  AnswerOf(wire[j])'
    BY DEF WireSource, AnswerAt, IsAnswer
  <2>0. wire \in Seq(Sendable)
    BY DEF TypeOK
  <2>1. \A e : AnswerOf(e) => AnswerOf(e)'
    BY AnswerKept
  <2>2. CASE j \in DOMAIN wire
    <3>1. wire'[j] = wire[j]
      BY <2>2, WireGrows
    <3>2. AnswerOf(wire[j])
      BY <2>2, <3>1 DEF SourceInv, WireSource, AnswerAt, IsAnswer
    <3> QED
      BY <2>1, <3>1, <3>2 DEF AnswerOf
  <2>3. CASE j \notin DOMAIN wire
    <3>1. CASE Shown
      <4>1. wire'[j] = Head(commands)
        BY <2>0, <2>3, <3>1 DEF Shown
      <4>2. Popped
        BY <3>1 DEF Shown, Popped
      <4>3. AnswerOf(Head(commands))
        BY <4>1, <4>2, QueuePops DEF IsAnswer, SourceInv, QueueSource
      <4> QED
        BY <2>1, <4>1, <4>3 DEF AnswerOf
    <3>2. ASSUME NEW st \in {"Http", "Frames"}, Routed(st)
          PROVE  AnswerOf(wire[j])'
      <4> DEFINE m == sent[decoded + 1]
      <4>1. Taken(st)
        BY <3>2 DEF Routed
      <4>2. /\ decoded + 1 \in DOMAIN sent /\ decoded' = decoded + 1 /\ decoded \in Nat
            /\ sent' = sent /\ m \in Message /\ Suits(m, st)
        BY <4>1, TakenType DEF Taken, Rest, input
      <4>3. m.id = decoded + 1
        BY <4>2 DEF ClientInv, Numbered
      <4>4. wire' = Append(wire, Answer(m))
        BY <3>2 DEF Routed
      <4> DEFINE e == Answer(m)
      <4>5. /\ e.id = m.id /\ (e.type = "101" <=> m.type = "upgrade")
            /\ (IsAnswer(e) <=> ~IsFrame(m))
        BY <4>2, AnswerType
      <4>6. m = sent'[decoded + 1]
        BY <4>2
      <4> HIDE DEF e, m
      <4>7. wire'[j] = e
        BY <2>0, <2>3, <4>4 DEF e
      <4> QED
        BY <4>2, <4>3, <4>5, <4>6, <4>7 DEF AnswerOf, IsFrame, IsAnswer
    <3> QED
      BY <2>3, <3>1, <3>2, WireCases
  <2> QED
    BY <2>2, <2>3
<1> QED
  BY <1>1, <1>2, <1>3 DEF SourceInv

-----------------------------------------------------------------------------
(***************************************************************************)
(* What the codec's state says.                                            *)
(***************************************************************************)
StateInv == HttpState /\ SocketState

LEMMA SwitchSeen ==
  ASSUME TypeOK, SourceInv
  PROVE  /\ Switched => UpgradeSeen
         /\ (\E i \in DOMAIN commands : commands[i].type = "101") => UpgradeSeen
<1>1. ASSUME NEW m, AnswerOf(m), m.type = "101" PROVE UpgradeSeen
  BY <1>1 DEF AnswerOf, UpgradeSeen
<1>2. Switched => UpgradeSeen
  BY <1>1 DEF SourceInv, WireSource, AnswerAt, IsAnswer, Switched
<1>3. (\E i \in DOMAIN commands : commands[i].type = "101") => UpgradeSeen
  BY <1>1 DEF SourceInv, QueueSource
<1> QED
  BY <1>2, <1>3

LEMMA Unmoved ==
  ASSUME Steps
  PROVE  /\ UNCHANGED <<kind, handler, eager, careless>>
         /\ \/ UNCHANGED <<decoded, state>>
            \/ UNCHANGED decoded /\ Shown
            \/ \E st \in {"Http", "Frames"} : Decodes(st) /\ Taken(st) /\ sent' = sent
<1>1. ASSUME NEW st, Decodes(st)
      PROVE  UNCHANGED <<kind, handler, eager, careless>> /\ Taken(st) /\ sent' = sent
  BY <1>1 DEF Decodes, Routed, Stopped, Skipped, Deferred, Taken, Rest, input
<1>2. ASSUME Shown PROVE UNCHANGED <<kind, handler, eager, careless, decoded>>
  BY <1>2 DEF Shown, input
<1>3. ASSUME ClientSends \/ TaskAnswers \/ TaskPushes \/ Denied \/ Read \/ Caught \/ Confused \/ Failed
      PROVE  UNCHANGED <<kind, handler, eager, careless, decoded, state>>
  BY <1>3 DEF ClientSends, TaskAnswers, TaskPushes, Denied, Read, Caught, Confused, Failed, Rest, input
<1> QED
  BY <1>1, <1>2, <1>3 DEF Steps

LEMMA SeenSteps ==
  ASSUME TypeOK, Steps
  PROVE  /\ decoded' = decoded => (UpgradeSeen' <=> UpgradeSeen)
         /\ \A st \in {"Http", "Frames"} : Taken(st) =>
              (UpgradeSeen' <=> UpgradeSeen \/ sent[decoded + 1].type = "upgrade")
<1>0. decoded \in Nat /\ decoded <= Len(sent) /\ Len(sent) \in Nat
  BY DEF TypeOK
<1>1. ASSUME decoded' = decoded PROVE UpgradeSeen' <=> UpgradeSeen
  BY <1>0, <1>1, SentGrows DEF UpgradeSeen
<1>2. ASSUME NEW st \in {"Http", "Frames"}, Taken(st)
      PROVE  UpgradeSeen' <=> UpgradeSeen \/ sent[decoded + 1].type = "upgrade"
  <2>1. decoded' = decoded + 1 /\ sent' = sent
    BY <1>2 DEF Taken, Rest, input
  <2>2. 1..(decoded + 1) = (1..decoded) \cup {decoded + 1}
    BY <1>0
  <2> QED
    BY <2>1, <2>2 DEF UpgradeSeen
<1> QED
  BY <1>1, <1>2

LEMMA SwitchSteps ==
  ASSUME TypeOK, Steps
  PROVE  /\ ~Shown /\ (\A st \in {"Http", "Frames"} : ~Routed(st)) => wire' = wire /\ (Switched' <=> Switched)
         /\ Shown => (Switched' <=> Switched \/ Head(commands).type = "101")
         /\ \A st \in {"Http", "Frames"} :
              Routed(st) => (Switched' <=> Switched \/ sent[decoded + 1].type = "upgrade")
<1>0. wire \in Seq(Sendable)
  BY DEF TypeOK
<1>1. ASSUME NEW e, wire' = Append(wire, e)
      PROVE  Switched' <=> Switched \/ e.type = "101"
  <2>1. /\ DOMAIN wire' = DOMAIN wire \cup {Len(wire) + 1}
        /\ \A i \in DOMAIN wire : wire'[i] = wire[i]
        /\ wire'[Len(wire) + 1] = e
    BY <1>0, <1>1
  <2> QED
    BY <2>1 DEF Switched
<1>2. ASSUME Shown PROVE Switched' <=> Switched \/ Head(commands).type = "101"
  BY <1>1, <1>2 DEF Shown
<1>3. ASSUME NEW st \in {"Http", "Frames"}, Routed(st)
      PROVE  Switched' <=> Switched \/ sent[decoded + 1].type = "upgrade"
  <2>1. Taken(st) /\ wire' = Append(wire, Answer(sent[decoded + 1]))
    BY <1>3 DEF Routed
  <2>2. Answer(sent[decoded + 1]).type = "101" <=> sent[decoded + 1].type = "upgrade"
    BY <2>1, TakenType, AnswerType DEF Taken
  <2> QED
    BY <1>1, <2>1, <2>2
<1>4. ASSUME wire' = wire PROVE Switched' <=> Switched
  BY <1>4 DEF Switched
<1> QED
  BY <1>2, <1>3, <1>4, WireCases

LEMMA StateKept ==
  ASSUME TypeOK, SourceInv, StateInv, Steps PROVE StateInv'
<1>1. ASSUME kind' = "HttpWs" PROVE state' = IF Switched' THEN "Frames" ELSE "Http"
  <2>0. kind = "HttpWs" /\ state = IF Switched THEN "Frames" ELSE "Http"
    BY <1>1, Unmoved DEF StateInv, HttpState
  <2>1. CASE Shown
    <3>1. state' = IF Head(commands).type = "101" THEN "Frames" ELSE state
      BY <2>1 DEF Shown
    <3> QED
      BY <2>0, <2>1, <3>1, SwitchSteps
  <2>2. ASSUME NEW st \in {"Http", "Frames"}, Decodes(st), Taken(st)
        PROVE  state' = IF Switched' THEN "Frames" ELSE "Http"
    <3>1. st = state
      BY <2>0, <2>2 DEF Taken, Suits
    <3>2. CASE Routed(st)
      <4>1. state' = IF sent[decoded + 1].type = "upgrade" THEN "Frames" ELSE st
        BY <3>2 DEF Routed
      <4> QED
        BY <2>0, <3>1, <3>2, <4>1, SwitchSteps
    <3>3. CASE Stopped(st) \/ Skipped(st) \/ Deferred(st)
      <4>1. wire' = wire /\ state' = st
        BY <3>3 DEF Stopped, Skipped, Deferred
      <4>2. Switched' <=> Switched
        BY <4>1 DEF Switched
      <4> QED
        BY <2>0, <3>1, <4>1, <4>2
    <3> QED
      BY <2>2, <3>2, <3>3 DEF Decodes
  <2>3. CASE UNCHANGED <<decoded, state>> /\ ~Shown
    <3>1. decoded' = decoded /\ decoded \in Nat
      BY <2>3 DEF TypeOK
    <3>2. \A st \in {"Http", "Frames"} : ~Routed(st)
      BY <3>1 DEF Routed, Taken
    <3> QED
      BY <2>0, <2>3, <3>2, SwitchSteps
  <2> QED
    BY <2>1, <2>2, <2>3, Unmoved
<1>2. ASSUME kind' = "WebSocket"
      PROVE  /\ state' = IF UpgradeSeen' THEN "Frames" ELSE "Handshake"
             /\ \A i \in RequestAt' : sent'[i].type = "upgrade"
  <2>0. /\ state = IF UpgradeSeen THEN "Frames" ELSE "Handshake"
        /\ \A i \in RequestAt : sent[i].type = "upgrade"
    BY <1>2, Unmoved DEF StateInv, SocketState
  <2>1. \A i \in RequestAt : i \in DOMAIN sent /\ sent'[i] = sent[i]
    BY SentGrows DEF RequestAt, TypeOK
  <2>2. CASE UNCHANGED decoded
    <3>1. state' = state
      <4>1. CASE Shown
        <5>1. Popped
          BY <4>1 DEF Shown, Popped
        <5>2. Head(commands).type = "101" => UpgradeSeen
          BY <5>1, QueuePops, SwitchSeen
        <5> QED
          BY <2>0, <4>1, <5>2 DEF Shown
      <4>2. CASE ~Shown
        <5>1. \A st : ~Taken(st)
          BY <2>2 DEF Taken, TypeOK
        <5> QED
          BY <4>2, <5>1, Unmoved
      <4> QED
        BY <4>1, <4>2
    <3>2. RequestAt' \subseteq RequestAt
      BY <2>2, RequestKept DEF TypeOK
    <3> QED
      BY <2>0, <2>1, <2>2, <3>1, <3>2, SeenSteps
  <2>3. ASSUME NEW st \in {"Http", "Frames"}, Decodes(st), Taken(st), sent' = sent
        PROVE  /\ state' = IF UpgradeSeen' THEN "Frames" ELSE "Handshake"
               /\ \A i \in RequestAt' : sent'[i].type = "upgrade"
    <3>1. st = "Frames" /\ (sent[decoded + 1].type = "upgrade" \/ (UpgradeSeen /\ sent[decoded + 1].type = "frame"))
      <4>1. CASE UpgradeSeen
        BY <2>0, <2>3, <4>1 DEF Taken, Suits
      <4>2. CASE ~UpgradeSeen
        BY <2>0, <2>3, <4>2 DEF Taken, Suits
      <4> QED
        BY <4>1, <4>2
    <3>2. state' = "Frames"
      BY <2>3, <3>1 DEF Decodes, Routed, Stopped, Skipped, Deferred
    <3>3. UpgradeSeen'
      BY <2>3, <3>1, SeenSteps
    <3>4. ASSUME NEW i \in RequestAt' PROVE sent'[i].type = "upgrade"
      <4>1. CASE i \in RequestAt
        BY <2>0, <2>1, <4>1
      <4>2. CASE i = decoded + 1
        <5>1. ~IsFrame(sent[decoded + 1])
          BY <2>3, <4>2 DEF RequestAt, IsFrame
        <5> QED
          BY <2>3, <3>1, <4>2, <5>1 DEF IsFrame
      <4> QED
        BY <4>1, <4>2, RequestKept
    <3> QED
      BY <3>2, <3>3, <3>4
  <2> QED
    BY <2>2, <2>3, Unmoved
<1> QED
  BY <1>1, <1>2 DEF StateInv, HttpState, SocketState

-----------------------------------------------------------------------------
(***************************************************************************)
(* A router leaves nothing to tasks; a careful task queues frames behind   *)
(* the 101 response.                                                       *)
(***************************************************************************)
LEMMA RouterKept ==
  ASSUME TypeOK, RouterAnswersAtOnce, Steps PROVE RouterAnswersAtOnce'
<1> SUFFICES ASSUME handler = "router"
             PROVE  pending' = {} /\ \A i \in DOMAIN commands' : commands'[i].type = "push"
  BY Unmoved DEF RouterAnswersAtOnce
<1>0. /\ pending = {} /\ (\A i \in DOMAIN commands : commands[i].type = "push")
      /\ commands \in Seq(Queued)
  BY DEF RouterAnswersAtOnce, TypeOK
<1>1. pending' \subseteq pending
  <2>1. ASSUME NEW st, Decodes(st) PROVE pending' = pending
    BY <2>1 DEF Decodes, Routed, Stopped, Skipped, Deferred
  <2> QED
    BY <2>1 DEF Steps, ClientSends, TaskAnswers, TaskPushes, Shown, Denied, Read, Caught, Confused, Failed
<1>2. ASSUME NEW i \in DOMAIN commands' PROVE commands'[i].type = "push"
  <2>1. CASE commands' = commands
    BY <1>0, <2>1
  <2>2. CASE commands' = Append(commands, Push)
    <3>1. (i \in DOMAIN commands /\ commands'[i] = commands[i]) \/ commands'[i] = Push
      BY <1>0, <2>2
    <3> QED
      BY <1>0, <3>1 DEF Push
  <2>3. CASE Popped
    BY <1>0, <2>3, QueuePops
  <2> QED
    BY <1>0, <2>1, <2>2, <2>3, QueueCases
<1> QED
  BY <1>0, <1>1, <1>2

LEMMA CarefulKept ==
  ASSUME TypeOK, StateInv, CarefulPushes, Steps PROVE CarefulPushes'
<1> SUFFICES ASSUME ~careless, NEW i \in DOMAIN commands', commands'[i].type = "push"
             PROVE  Switched' \/ \E j \in 1..(i - 1) : commands'[j].type = "101"
  BY Unmoved DEF CarefulPushes
<1>0. /\ commands \in Seq(Queued) /\ wire \in Seq(Sendable)
      /\ \A n \in DOMAIN commands :
           commands[n].type = "push" => Switched \/ \E j \in 1..(n - 1) : commands[j].type = "101"
  BY DEF CarefulPushes, TypeOK
<1>1. Switched => Switched'
  BY WireGrows
<1>2. CASE commands' = commands
  BY <1>0, <1>1, <1>2
<1>3. ASSUME NEW e, commands' = Append(commands, e), i \in DOMAIN commands
      PROVE  Switched' \/ \E j \in 1..(i - 1) : commands'[j].type = "101"
  <2>1. commands'[i] = commands[i] /\ \A j \in 1..(i - 1) : commands'[j] = commands[j]
    BY <1>0, <1>3
  <2> QED
    BY <1>0, <1>1, <1>3, <2>1
<1>4. ASSUME NEW e, commands' = Append(commands, e), i \notin DOMAIN commands
      PROVE  /\ commands'[i] = e /\ i = Len(commands) + 1 /\ Len(commands) \in Nat
             /\ \A j \in 1..Len(commands) : commands'[j] = commands[j]
  BY <1>0, <1>4
<1>5. CASE \E m \in pending : commands' = Append(commands, Late(m))
  <2>1. PICK m \in pending : commands' = Append(commands, Late(m))
    BY <1>5
  <2>2. Late(m).type # "push"
    BY DEF Late
  <2> QED
    BY <1>3, <1>4, <2>1, <2>2
<1>6. CASE TaskPushes /\ commands' = Append(commands, Push)
  <2>1. CASE i \in DOMAIN commands
    BY <1>3, <1>6, <2>1
  <2>2. CASE i \notin DOMAIN commands
    <3>1. \E m \in ToSet(commands) \cup ToSet(wire) : m.type = "101"
      BY <1>6 DEF TaskPushes
    <3>2. Switched \/ \E j \in 1..Len(commands) : commands[j].type = "101"
      BY <1>0, <3>1 DEF ToSet, Switched
    <3>3. i - 1 = Len(commands)
      BY <1>4, <1>6, <2>2
    <3> QED
      BY <1>1, <1>4, <1>6, <2>2, <3>2, <3>3
  <2> QED
    BY <2>1, <2>2
<1>7. CASE Popped /\ (Shown \/ Denied)
  <2>1. /\ i \in Nat /\ i + 1 \in DOMAIN commands /\ commands'[i] = commands[i + 1]
        /\ DOMAIN commands' = 1..(Len(commands) - 1) /\ Len(commands) \in Nat
    BY <1>7, QueuePops
  <2>2. Switched \/ \E j \in 1..i : commands[j].type = "101"
    BY <1>0, <2>1
  <2>3. ASSUME Head(commands).type = "101" PROVE Switched'
    <3>1. CASE Shown
      BY <2>3, <3>1, SwitchSteps
    <3>2. CASE Denied
      BY <1>1, <2>3, <3>2 DEF Denied, Refused, StateInv, HttpState
    <3> QED
      BY <1>7, <3>1, <3>2
  <2>4. ASSUME NEW j \in 1..i, commands[j].type = "101", j # 1
        PROVE  \E k \in 1..(i - 1) : commands'[k].type = "101"
    <3>1. j - 1 \in 1..(i - 1) /\ j - 1 \in DOMAIN commands'
      BY <2>1, <2>4
    <3>2. commands'[j - 1] = commands[j]
      BY <1>7, <2>4, <3>1, QueuePops
    <3> QED
      BY <2>4, <3>1, <3>2
  <2> QED
    BY <1>1, <1>7, <2>2, <2>3, <2>4, QueuePops
<1> QED
  BY <1>2, <1>5, <1>6, <1>7, QueueCases

-----------------------------------------------------------------------------
(***************************************************************************)
(* How an answer moves: from a request left to a task to the queue, from   *)
(* there to the wire, or to the wire at once.                              *)
(***************************************************************************)
LeftKept  == \A k \in Nat : Left(k)' <=> Left(k)
QueueKept == \A k \in Nat : InQueue(k)' <=> InQueue(k)
WireKept  == \A k \in Nat : OnWire(k)' <=> OnWire(k)

LeftGains(n)  == \A k \in Nat : Left(k)' <=> (Left(k) \/ k = n)
QueueGains(n) == \A k \in Nat : InQueue(k)' <=> (InQueue(k) \/ k = n)
WireGains(n)  == \A k \in Nat : OnWire(k)' <=> (OnWire(k) \/ k = n)
LeftLoses(n)  == \A k \in Nat : Left(k)' <=> (Left(k) /\ k # n)
QueueLoses(n) == \A k \in Nat : InQueue(k)' <=> (InQueue(k) /\ k # n)

Queues(n) == Left(n) /\ LeftLoses(n) /\ QueueGains(n) /\ WireKept /\ RequestAt' = RequestAt
Shows(n)  == InQueue(n) /\ LeftKept /\ QueueLoses(n) /\ WireGains(n) /\ RequestAt' = RequestAt
Leaves(n) == LeftGains(n) /\ QueueKept /\ WireKept /\ RequestAt' = RequestAt \cup {n}
Replies(n) == LeftKept /\ QueueKept /\ WireGains(n) /\ RequestAt' = RequestAt \cup {n}
Rests     == LeftKept /\ QueueKept /\ WireKept /\ RequestAt' = RequestAt
Ends      == /\ pc' = "ended" /\ LeftKept /\ WireKept /\ RequestAt \subseteq RequestAt'
             /\ \A k \in Nat : InQueue(k)' => InQueue(k)

LEMMA WireMoves ==
  ASSUME TypeOK
  PROVE  /\ \A e \in Sendable : wire' = Append(wire, e) /\ IsAnswer(e) => WireGains(e.id)
         /\ \A e \in Sendable : wire' = Append(wire, e) /\ ~IsAnswer(e) => WireKept
         /\ wire' = wire => WireKept
<1>0. wire \in Seq(Sendable)
  BY DEF TypeOK
<1>1. ASSUME NEW e \in Sendable, wire' = Append(wire, e), NEW k \in Nat
      PROVE  OnWire(k)' <=> (OnWire(k) \/ (IsAnswer(e) /\ e.id = k))
  <2>1. /\ DOMAIN wire' = DOMAIN wire \cup {Len(wire) + 1}
        /\ \A i \in DOMAIN wire : wire'[i] = wire[i]
        /\ wire'[Len(wire) + 1] = e
    BY <1>0, <1>1
  <2> QED
    BY <2>1 DEF OnWire, AnswerAt, IsAnswer
<1>2. ASSUME wire' = wire PROVE WireKept
  BY <1>2 DEF WireKept, OnWire, AnswerAt, IsAnswer
<1> QED
  BY <1>1, <1>2 DEF WireKept, WireGains

LEMMA QueueMoves ==
  ASSUME TypeOK
  PROVE  /\ \A e \in Queued : commands' = Append(commands, e) /\ e.type # "push" => QueueGains(e.id)
         /\ \A e \in Queued : commands' = Append(commands, e) /\ e.type = "push" => QueueKept
         /\ commands' = commands => QueueKept
         /\ Popped /\ Head(commands).type = "push" => QueueKept
         /\ Popped /\ Head(commands).type # "push" /\ QueueOnce => QueueLoses(Head(commands).id)
         /\ Popped => \A k \in Nat : InQueue(k)' => InQueue(k)
<1>0. commands \in Seq(Queued)
  BY DEF TypeOK
<1>1. ASSUME NEW e \in Queued, commands' = Append(commands, e), NEW k \in Nat
      PROVE  InQueue(k)' <=> (InQueue(k) \/ (e.type # "push" /\ e.id = k))
  <2>1. /\ DOMAIN commands' = DOMAIN commands \cup {Len(commands) + 1}
        /\ \A i \in DOMAIN commands : commands'[i] = commands[i]
        /\ commands'[Len(commands) + 1] = e
    BY <1>0, <1>1
  <2> QED
    BY <2>1 DEF InQueue
<1>2. ASSUME commands' = commands PROVE QueueKept
  BY <1>2 DEF QueueKept, InQueue
<1>3. ASSUME Popped, NEW k \in Nat PROVE InQueue(k)' => InQueue(k)
  <2> SUFFICES ASSUME NEW i \in DOMAIN commands', commands'[i].type # "push" /\ commands'[i].id = k
               PROVE  InQueue(k)
    BY DEF InQueue
  <2>1. i + 1 \in DOMAIN commands /\ commands'[i] = commands[i + 1]
    BY <1>3, QueuePops
  <2> QED
    BY <2>1 DEF InQueue
<1>4. ASSUME Popped, NEW k \in Nat, InQueue(k)
      PROVE  InQueue(k)' \/ (Head(commands).type # "push" /\ Head(commands).id = k)
  <2>1. PICK i \in DOMAIN commands : commands[i].type # "push" /\ commands[i].id = k
    BY <1>4 DEF InQueue
  <2>2. CASE i = 1
    BY <1>4, <2>1, <2>2, QueuePops
  <2>3. CASE i # 1
    <3>1. i - 1 \in DOMAIN commands'
      BY <1>4, <2>3, QueuePops
    <3>2. commands'[i - 1] = commands[i]
      <4>1. (i - 1) + 1 = i
        BY <1>4, QueuePops
      <4> QED
        BY <1>4, <3>1, <4>1, QueuePops
    <3> QED
      BY <2>1, <3>1, <3>2 DEF InQueue
  <2> QED
    BY <2>2, <2>3
<1>5. ASSUME Popped, Head(commands).type # "push", QueueOnce, NEW k \in Nat, Head(commands).id = k
      PROVE  ~InQueue(k)'
  <2> SUFFICES ASSUME NEW i \in DOMAIN commands', commands'[i].type # "push", commands'[i].id = k
               PROVE  FALSE
    BY DEF InQueue
  <2> QED
    BY <1>5, QueuePops DEF QueueOnce
<1>6. ASSUME NEW e \in Queued, commands' = Append(commands, e), e.type # "push" PROVE QueueGains(e.id)
  BY <1>1, <1>6 DEF QueueGains
<1>7. ASSUME NEW e \in Queued, commands' = Append(commands, e), e.type = "push" PROVE QueueKept
  BY <1>1, <1>7 DEF QueueKept
<1>8. ASSUME Popped, Head(commands).type = "push" PROVE QueueKept
  BY <1>3, <1>4, <1>8 DEF QueueKept
<1>9. ASSUME Popped, Head(commands).type # "push", QueueOnce PROVE QueueLoses(Head(commands).id)
  BY <1>3, <1>4, <1>5, <1>9 DEF QueueLoses
<1> QED
  BY <1>2, <1>3, <1>6, <1>7, <1>8, <1>9

LEMMA PlacesAreRequests ==
  ASSUME SourceInv, NEW k, AnswerOwed(k) PROVE k \in RequestAt
<1>1. ASSUME NEW m, AnswerOf(m) PROVE m.id \in RequestAt
  BY <1>1 DEF AnswerOf, RequestAt
<1> QED
  BY <1>1 DEF SourceInv, PendingSource, QueueSource, WireSource, AnswerOwed, Left, InQueue, OnWire

LEMMA TakenRequests ==
  ASSUME TypeOK, NEW st \in {"Http", "Frames"}, Taken(st)
  PROVE  /\ IsFrame(sent[decoded + 1]) => RequestAt' = RequestAt
         /\ ~IsFrame(sent[decoded + 1]) => RequestAt' = RequestAt \cup {decoded + 1}
<1>1. decoded \in Nat /\ decoded' = decoded + 1 /\ sent' = sent
  BY TakenType DEF Taken, Rest, input
<1>2. 1..(decoded + 1) = (1..decoded) \cup {decoded + 1}
  BY <1>1
<1> QED
  BY <1>1, <1>2 DEF RequestAt, IsFrame

LEMMA MoveCases ==
  ASSUME TypeOK, ClientInv, SourceInv, QueueOnce, Steps
  PROVE  \/ \E n \in Nat : Queues(n) \/ Shows(n)
         \/ Leaves(decoded + 1) \/ Replies(decoded + 1)
         \/ Rests \/ Ends
<1>0. commands \in Seq(Queued) /\ decoded \in Nat
  BY DEF TypeOK
<1>1. ASSUME decoded' = decoded, sent' = sent PROVE RequestAt' = RequestAt
  BY <1>1 DEF RequestAt, IsFrame
<1>2. ASSUME pending' = pending PROVE LeftKept
  BY <1>2 DEF LeftKept, Left
<1>3. CASE TaskAnswers
  <2>1. PICK m \in pending : commands' = Append(commands, Late(m)) /\ pending' = pending \ {m}
    BY <1>3 DEF TaskAnswers, Late
  <2>2. m \in Message /\ m.id \in Nat /\ m = sent[m.id]
    BY DEF TypeOK, Message, SourceInv, PendingSource
  <2>3. Late(m) \in Queued /\ Late(m).type # "push" /\ Late(m).id = m.id
    BY <2>2 DEF Late, Queued
  <2>4. QueueGains(m.id)
    BY <2>1, <2>3, QueueMoves
  <2>5. LeftLoses(m.id)
    <3>1. \A e \in pending : e.id = m.id => e = m
      BY <2>2 DEF SourceInv, PendingSource
    <3> QED
      BY <2>1, <3>1 DEF LeftLoses, Left
  <2>6. WireKept /\ RequestAt' = RequestAt
    BY <1>1, <1>3, WireMoves DEF TaskAnswers, input
  <2> QED
    BY <2>2, <2>4, <2>5, <2>6 DEF Queues, Left
<1>4. CASE TaskPushes
  <2>1. Push \in Queued /\ Push.type = "push" /\ commands' = Append(commands, Push)
    BY <1>4 DEF TaskPushes, Push, Queued
  <2>2. QueueKept
    BY <2>1, QueueMoves
  <2>3. WireKept /\ RequestAt' = RequestAt /\ LeftKept
    BY <1>1, <1>2, <1>4, WireMoves DEF TaskPushes, input
  <2> QED
    BY <2>2, <2>3 DEF Rests
<1>5. CASE Shown
  <2> DEFINE h == Head(commands)
  <2>1. Popped /\ wire' = Append(wire, h) /\ LeftKept /\ RequestAt' = RequestAt
    BY <1>1, <1>2, <1>5 DEF Shown, Popped, input
  <2>2. h \in Queued /\ h \in Sendable /\ h.id \in Nat
    <3>1. h \in Queued
      BY <1>0, <2>1, QueuePops
    <3> HIDE DEF h
    <3> QED
      BY <3>1 DEF Queued, Sendable
  <2>3. h.type # "push" <=> IsAnswer(h)
    BY <2>2 DEF Queued, IsAnswer
  <2>4. CASE h.type = "push"
    <3>1. QueueKept
      BY <2>1, <2>4, QueueMoves
    <3>2. WireKept
      BY <2>1, <2>2, <2>3, <2>4, WireMoves
    <3> QED
      BY <2>1, <3>1, <3>2 DEF Rests
  <2>5. CASE h.type # "push"
    <3>1. QueueLoses(h.id)
      BY <2>1, <2>5, QueueMoves
    <3>2. WireGains(h.id)
      BY <2>1, <2>2, <2>3, <2>5, WireMoves
    <3>3. InQueue(h.id)
      BY <2>1, <2>5, QueuePops DEF InQueue
    <3> QED
      BY <2>1, <2>2, <3>1, <3>2, <3>3 DEF Shows
  <2> QED
    BY <2>4, <2>5
<1>6. CASE Denied
  <2>1. Popped /\ pc' = "ended" /\ LeftKept /\ RequestAt' = RequestAt /\ WireKept
    BY <1>1, <1>2, <1>6, WireMoves DEF Denied, Popped, input
  <2> QED
    BY <2>1, QueueMoves DEF Ends
<1>7. CASE Read \/ Caught \/ Confused \/ Failed
  <2>1. UNCHANGED <<decoded, sent, pending, commands, wire>>
    BY <1>7 DEF Read, Caught, Confused, Failed, Rest, input
  <2> QED
    BY <1>1, <1>2, <2>1, QueueMoves, WireMoves DEF Rests
<1>8. CASE ClientSends
  <2>1. UNCHANGED <<decoded, pending, commands, wire>>
    BY <1>8 DEF ClientSends
  <2>2. RequestAt' = RequestAt
    <3>1. \A n \in RequestAt' : n \in RequestAt
      BY <1>0, <2>1, RequestKept
    <3> QED
      BY <3>1, RequestKept
  <2> QED
    BY <1>2, <2>1, <2>2, QueueMoves, WireMoves DEF Rests
<1>9. ASSUME NEW st \in {"Http", "Frames"}, Decodes(st)
      PROVE  Leaves(decoded + 1) \/ Replies(decoded + 1) \/ Rests \/ Ends
  <2> DEFINE m == sent[decoded + 1]
  <2>1. Taken(st) /\ commands' = commands
    BY <1>9 DEF Decodes, Routed, Stopped, Skipped, Deferred, Taken, Rest
  <2>2. m \in Message /\ m.id = decoded + 1 /\ Suits(m, st)
    BY <2>1, TakenType DEF Taken, ClientInv, Numbered
  <2>3. QueueKept
    BY <2>1, QueueMoves
  <2>4. Answer(m) \in Sendable /\ Answer(m).id = m.id /\ (IsAnswer(Answer(m)) <=> ~IsFrame(m))
    BY <2>2, AnswerType
  <2>5. CASE Routed(st)
    <3>1. wire' = Append(wire, Answer(m)) /\ LeftKept
      BY <1>2, <2>5 DEF Routed
    <3>2. CASE IsFrame(m)
      BY <2>1, <2>3, <2>4, <3>1, <3>2, WireMoves, TakenRequests DEF Rests
    <3>3. CASE ~IsFrame(m)
      <4>1. WireGains(m.id)
        BY <2>4, <3>1, <3>3, WireMoves
      <4> QED
        BY <2>1, <2>2, <2>3, <3>1, <3>3, <4>1, TakenRequests DEF Replies
    <3> QED
      BY <3>2, <3>3
  <2>6. CASE Stopped(st)
    <3>1. pc' = "ended" /\ LeftKept /\ WireKept
      BY <1>2, <2>6, WireMoves DEF Stopped
    <3> QED
      BY <2>3, <3>1, RequestKept DEF Ends, QueueKept
  <2>7. CASE Skipped(st)
    <3>1. LeftKept /\ WireKept /\ IsFrame(m)
      BY <1>2, <2>7, WireMoves DEF Skipped
    <3> QED
      BY <2>1, <2>3, <3>1, TakenRequests DEF Rests
  <2>8. CASE Deferred(st)
    <3>1. WireKept
      BY <2>8, WireMoves DEF Deferred
    <3>2. CASE IsFrame(m)
      <4>1. pending' = pending
        BY <2>8, <3>2 DEF Deferred
      <4> QED
        BY <1>2, <2>1, <2>3, <3>1, <3>2, <4>1, TakenRequests DEF Rests
    <3>3. CASE ~IsFrame(m)
      <4>1. pending' = pending \cup {m}
        BY <2>8, <3>3 DEF Deferred
      <4>2. LeftGains(decoded + 1)
        <5> HIDE DEF m
        <5> QED
          BY <2>2, <4>1 DEF LeftGains, Left
      <4> QED
        BY <2>1, <2>3, <3>1, <3>3, <4>2, TakenRequests DEF Leaves
    <3> QED
      BY <3>2, <3>3
  <2> QED
    BY <1>9, <2>5, <2>6, <2>7, <2>8 DEF Decodes
<1> QED
  BY <1>3, <1>4, <1>5, <1>6, <1>7, <1>8, <1>9 DEF Steps

-----------------------------------------------------------------------------
(***************************************************************************)
(* Every answer is in one place, and is there while the connection lives.  *)
(***************************************************************************)
PlaceInv == WireOnce /\ QueueOnce /\ OnePlace

LEMMA WireOnceKept ==
  ASSUME TypeOK, ClientInv, SourceInv, PlaceInv, Steps PROVE WireOnce'
<1>0. wire \in Seq(Sendable) /\ WireOnce
  BY DEF TypeOK, PlaceInv
<1>1. ASSUME NEW e \in Sendable, wire' = Append(wire, e), IsAnswer(e) => ~OnWire(e.id)
      PROVE  WireOnce'
  <2>1. /\ DOMAIN wire' = DOMAIN wire \cup {Len(wire) + 1}
        /\ \A i \in DOMAIN wire : wire'[i] = wire[i]
        /\ wire'[Len(wire) + 1] = e
    BY <1>0, <1>1
  <2> SUFFICES ASSUME NEW i \in DOMAIN wire', NEW j \in DOMAIN wire',
                      IsAnswer(wire'[i]), IsAnswer(wire'[j]), wire'[i].id = wire'[j].id
               PROVE  i = j
    BY DEF WireOnce, AnswerAt, IsAnswer
  <2>2. CASE i \in DOMAIN wire /\ j \in DOMAIN wire
    BY <1>0, <2>1, <2>2 DEF WireOnce, AnswerAt
  <2>3. CASE i \in DOMAIN wire /\ j = Len(wire) + 1
    BY <1>1, <2>1, <2>3 DEF OnWire, AnswerAt
  <2>4. CASE i = Len(wire) + 1 /\ j \in DOMAIN wire
    BY <1>1, <2>1, <2>4 DEF OnWire, AnswerAt
  <2> QED
    BY <2>1, <2>2, <2>3, <2>4
<1>2. CASE wire' = wire
  BY <1>0, <1>2 DEF WireOnce, AnswerAt, IsAnswer
<1>3. CASE Shown
  <2> DEFINE h == Head(commands)
  <2>1. Popped /\ wire' = Append(wire, h)
    BY <1>3 DEF Shown, Popped
  <2>2. h \in Queued
    BY <2>1, QueuePops DEF TypeOK
  <2>3. h.type # "push" => InQueue(h.id)
    BY <2>1, QueuePops DEF InQueue
  <2> HIDE DEF h
  <2>4. h \in Sendable /\ h.id \in Nat /\ (IsAnswer(h) => h.type # "push")
    BY <2>2 DEF Queued, Sendable, IsAnswer
  <2> QED
    BY <1>1, <2>1, <2>3, <2>4 DEF PlaceInv, OnePlace
<1>4. ASSUME NEW st \in {"Http", "Frames"}, Routed(st) PROVE WireOnce'
  <2> DEFINE m == sent[decoded + 1]
  <2>1. Taken(st) /\ wire' = Append(wire, Answer(m))
    BY <1>4 DEF Routed
  <2>2. m \in Message /\ m.id = decoded + 1 /\ Suits(m, st) /\ decoded \in Nat
    BY <2>1, TakenType DEF Taken, ClientInv, Numbered
  <2>3. Answer(m) \in Sendable /\ Answer(m).id = m.id
    BY <2>2, AnswerType
  <2>4. ~OnWire(decoded + 1)
    BY <2>2, PlacesAreRequests DEF AnswerOwed, RequestAt
  <2> QED
    BY <1>1, <2>1, <2>2, <2>3, <2>4
<1> QED
  BY <1>2, <1>3, <1>4, WireCases

LEMMA QueueOnceKept ==
  ASSUME TypeOK, SourceInv, PlaceInv, Steps PROVE QueueOnce'
<1>0. commands \in Seq(Queued) /\ QueueOnce
  BY DEF TypeOK, PlaceInv
<1>1. ASSUME NEW e, commands' = Append(commands, e), e.type # "push" => ~InQueue(e.id)
      PROVE  QueueOnce'
  <2>1. /\ DOMAIN commands' = DOMAIN commands \cup {Len(commands) + 1}
        /\ \A i \in DOMAIN commands : commands'[i] = commands[i]
        /\ commands'[Len(commands) + 1] = e
    BY <1>0, <1>1
  <2> SUFFICES ASSUME NEW i \in DOMAIN commands', NEW j \in DOMAIN commands',
                      commands'[i].type # "push", commands'[j].type # "push",
                      commands'[i].id = commands'[j].id
               PROVE  i = j
    BY DEF QueueOnce
  <2>2. CASE i \in DOMAIN commands /\ j \in DOMAIN commands
    BY <1>0, <2>1, <2>2 DEF QueueOnce
  <2>3. CASE i \in DOMAIN commands /\ j = Len(commands) + 1
    BY <1>1, <2>1, <2>3 DEF InQueue
  <2>4. CASE i = Len(commands) + 1 /\ j \in DOMAIN commands
    BY <1>1, <2>1, <2>4 DEF InQueue
  <2> QED
    BY <2>1, <2>2, <2>3, <2>4
<1>2. CASE commands' = commands
  BY <1>0, <1>2 DEF QueueOnce
<1>3. ASSUME NEW m \in pending, commands' = Append(commands, Late(m)) PROVE QueueOnce'
  <2>1. Left(m.id) /\ m.id \in Nat /\ Late(m).id = m.id
    BY DEF Left, TypeOK, Message, Late
  <2> QED
    BY <1>1, <1>3, <2>1 DEF PlaceInv, OnePlace
<1>4. CASE commands' = Append(commands, Push)
  <2>1. Push.type = "push"
    BY DEF Push
  <2> QED
    BY <1>1, <1>4, <2>1
<1>5. CASE Popped
  <2> SUFFICES ASSUME NEW i \in DOMAIN commands', NEW j \in DOMAIN commands',
                      commands'[i].type # "push", commands'[j].type # "push",
                      commands'[i].id = commands'[j].id
               PROVE  i = j
    BY DEF QueueOnce
  <2>1. /\ i + 1 \in DOMAIN commands /\ commands'[i] = commands[i + 1] /\ i \in Nat
        /\ j + 1 \in DOMAIN commands /\ commands'[j] = commands[j + 1] /\ j \in Nat
    BY <1>5, QueuePops
  <2>2. i + 1 = j + 1
    BY <1>0, <2>1 DEF QueueOnce
  <2> QED
    BY <2>1, <2>2
<1> QED
  BY <1>2, <1>3, <1>4, <1>5, QueueCases

LEMMA PlaceKept ==
  ASSUME TypeOK, ClientInv, SourceInv, PlaceInv, Steps PROVE PlaceInv'
<1>1. OnePlace /\ QueueOnce
  BY DEF PlaceInv
<1>2. ASSUME NEW n \in Nat, Queues(n) PROVE OnePlace'
  BY <1>1, <1>2 DEF Queues, OnePlace, LeftLoses, QueueGains, WireKept
<1>3. ASSUME NEW n \in Nat, Shows(n) PROVE OnePlace'
  BY <1>1, <1>3 DEF Shows, OnePlace, LeftKept, QueueLoses, WireGains
<1>4. decoded + 1 \in Nat /\ decoded + 1 \notin RequestAt
  BY DEF TypeOK, RequestAt
<1>5. ~Left(decoded + 1) /\ ~InQueue(decoded + 1) /\ ~OnWire(decoded + 1)
  BY <1>4, PlacesAreRequests DEF AnswerOwed
<1>6. ASSUME Leaves(decoded + 1) PROVE OnePlace'
  BY <1>1, <1>5, <1>6 DEF Leaves, OnePlace, LeftGains, QueueKept, WireKept
<1>7. ASSUME Replies(decoded + 1) PROVE OnePlace'
  BY <1>1, <1>5, <1>7 DEF Replies, OnePlace, LeftKept, QueueKept, WireGains
<1>8. ASSUME Rests \/ Ends PROVE OnePlace'
  BY <1>1, <1>8 DEF Rests, Ends, OnePlace, LeftKept, QueueKept, WireKept
<1>9. OnePlace'
  BY <1>1, <1>2, <1>3, <1>6, <1>7, <1>8, MoveCases
<1> QED
  BY <1>9, WireOnceKept, QueueOnceKept DEF PlaceInv

LEMMA OwedKept ==
  ASSUME TypeOK, ClientInv, SourceInv, PlaceInv, AnswersOwed, Steps PROVE AnswersOwed'
<1>1. SUFFICES ASSUME pc' # "ended", NEW n \in RequestAt' PROVE AnswerOwed(n)'
  BY DEF AnswersOwed
<1>2. pc # "ended"
  <2>1. ASSUME NEW st, Decodes(st) PROVE pc = "decode"
    BY <2>1 DEF Decodes, Routed, Stopped, Skipped, Deferred, Taken
  <2> QED
    BY <1>1, <2>1 DEF Steps, ClientSends, TaskAnswers, TaskPushes, Shown, Denied, Read, Caught, Confused, Failed
<1>3. n \in Nat /\ (n \in RequestAt => AnswerOwed(n))
  <2>1. n \in 1..decoded'
    BY DEF RequestAt
  <2> QED
    BY <1>2, <2>1 DEF AnswersOwed
<1>4. ASSUME NEW k \in Nat, Queues(k) PROVE AnswerOwed(n)'
  BY <1>3, <1>4 DEF Queues, AnswerOwed, LeftLoses, QueueGains, WireKept
<1>5. ASSUME NEW k \in Nat, Shows(k) PROVE AnswerOwed(n)'
  BY <1>3, <1>5 DEF Shows, AnswerOwed, LeftKept, QueueLoses, WireGains
<1>6. ASSUME Leaves(decoded + 1) PROVE AnswerOwed(n)'
  BY <1>3, <1>6 DEF Leaves, AnswerOwed, LeftGains, QueueKept, WireKept
<1>7. ASSUME Replies(decoded + 1) PROVE AnswerOwed(n)'
  BY <1>3, <1>7 DEF Replies, AnswerOwed, LeftKept, QueueKept, WireGains
<1>8. ASSUME Rests PROVE AnswerOwed(n)'
  BY <1>3, <1>8 DEF Rests, AnswerOwed, LeftKept, QueueKept, WireKept
<1> QED
  BY <1>1, <1>4, <1>5, <1>6, <1>7, <1>8, MoveCases DEF PlaceInv, Ends

-----------------------------------------------------------------------------
(***************************************************************************)
(* A router answers in order.                                              *)
(***************************************************************************)
LEMMA OrderKept ==
  ASSUME TypeOK, ClientInv, SourceInv, RouterAnswersAtOnce, RouterOrder, Steps
  PROVE  RouterOrder'
<1> SUFFICES ASSUME handler = "router", NEW i \in DOMAIN wire', NEW j \in DOMAIN wire',
                    IsAnswer(wire'[i]), IsAnswer(wire'[j]), i < j
             PROVE  wire'[i].id < wire'[j].id
  BY Unmoved DEF RouterOrder, AnswerAt, IsAnswer
<1>0. wire \in Seq(Sendable) /\ decoded \in Nat
  BY DEF TypeOK
<1>1. ASSUME i \in DOMAIN wire, j \in DOMAIN wire PROVE wire'[i].id < wire'[j].id
  BY <1>1, WireGrows DEF RouterOrder, AnswerAt, IsAnswer
<1>2. ASSUME NEW e, wire' = Append(wire, e), j \notin DOMAIN wire
      PROVE  wire'[j] = e /\ i \in DOMAIN wire /\ wire'[i] = wire[i]
  BY <1>0, <1>2
<1>3. CASE wire' = wire
  BY <1>1, <1>3
<1>4. CASE Shown
  <2>1. Popped /\ wire' = Append(wire, Head(commands))
    BY <1>4 DEF Shown, Popped
  <2>2. ~IsAnswer(Head(commands))
    BY <2>1, QueuePops DEF RouterAnswersAtOnce, IsAnswer
  <2>3. j \in DOMAIN wire
    BY <1>2, <2>1, <2>2 DEF IsAnswer
  <2>4. i \in DOMAIN wire
    BY <1>0, <2>1, <2>3
  <2> QED
    BY <1>1, <2>3, <2>4
<1>5. ASSUME NEW st \in {"Http", "Frames"}, Routed(st) PROVE wire'[i].id < wire'[j].id
  <2> DEFINE m == sent[decoded + 1]
  <2>1. Taken(st) /\ wire' = Append(wire, Answer(m))
    BY <1>5 DEF Routed
  <2>2. m \in Message /\ m.id = decoded + 1 /\ Suits(m, st)
    BY <2>1, TakenType DEF Taken, ClientInv, Numbered
  <2>3. Answer(m).id = decoded + 1
    BY <2>2, AnswerType
  <2>4. CASE j \in DOMAIN wire
    <3>1. i \in DOMAIN wire
      BY <1>0, <2>1, <2>4
    <3> QED
      BY <1>1, <2>4, <3>1
  <2>5. CASE j \notin DOMAIN wire
    <3>1. wire'[j] = Answer(m) /\ i \in DOMAIN wire /\ wire'[i] = wire[i]
      BY <1>2, <2>1, <2>5
    <3>2. AnswerOf(wire[i])
      BY <3>1 DEF SourceInv, WireSource, AnswerAt, IsAnswer
    <3> QED
      BY <1>0, <2>3, <3>1, <3>2 DEF AnswerOf
  <2> QED
    BY <2>4, <2>5
<1> QED
  BY <1>3, <1>4, <1>5, WireCases

-----------------------------------------------------------------------------
(***************************************************************************)
(* What the client reads.                                                  *)
(***************************************************************************)
LEMMA SeenIsOne ==
  ASSUME TypeOK, ClientInv,
         NEW i \in 1..decoded, NEW j \in 1..decoded, sent[i].type = "upgrade", sent[j].type = "upgrade"
  PROVE  i = j
<1>1. i \in DOMAIN sent /\ j \in DOMAIN sent
  BY DEF TypeOK
<1>2. ~(i < j) /\ ~(j < i)
  BY <1>1 DEF ClientInv, AsksOnce, IsFrame
<1> QED
  BY <1>2

\* The message that goes to the wire next fits what is there already
Fits(e) ==
  IF IsAnswer(e) THEN \A j \in DOMAIN wire : wire[j].type = "response"
  ELSE Switched

LEMMA WellFormedStep ==
  ASSUME TypeOK, WireWellFormed, NEW e, wire' = Append(wire, e),
         UNCHANGED <<kind, careless>>, kind = "HttpWs" \/ ~careless => Fits(e)
  PROVE  WireWellFormed'
<1>0. wire \in Seq(Sendable)
  BY DEF TypeOK
<1>1. /\ Len(wire) \in Nat /\ DOMAIN wire' = 1..(Len(wire) + 1) /\ DOMAIN wire = 1..Len(wire)
      /\ \A i \in 1..Len(wire) : wire'[i] = wire[i]
      /\ wire'[Len(wire) + 1] = e
  BY <1>0
<1> SUFFICES ASSUME kind = "HttpWs" \/ ~careless, NEW i \in DOMAIN wire'
             PROVE  IF IsAnswer(wire'[i]) THEN \A j \in 1..(i - 1) : wire'[j].type = "response"
                    ELSE \E j \in 1..(i - 1) : wire'[j].type = "101"
  BY DEF WireWellFormed, IsAnswer
<1>2. CASE i \in DOMAIN wire
  <2>1. wire'[i] = wire[i] /\ \A j \in 1..(i - 1) : wire'[j] = wire[j]
    BY <1>1, <1>2
  <2>2. IF IsAnswer(wire[i]) THEN \A j \in 1..(i - 1) : wire[j].type = "response"
        ELSE \E j \in 1..(i - 1) : wire[j].type = "101"
    BY <1>2 DEF WireWellFormed, IsAnswer
  <2> QED
    BY <2>1, <2>2
<1>3. CASE i = Len(wire) + 1
  <2>1. wire'[i] = e /\ i - 1 = Len(wire)
    BY <1>1, <1>3
  <2> QED
    BY <1>1, <2>1 DEF Fits, Switched
<1> QED
  BY <1>1, <1>2, <1>3

LEMMA BeforeSwitch ==
  ASSUME WireWellFormed, kind = "HttpWs" \/ ~careless, ~Switched, NEW i \in DOMAIN wire,
         wire \in Seq(Sendable)
  PROVE  wire[i].type = "response"
<1>1. ~IsAnswer(wire[i]) => \E j \in 1..(i - 1) : wire[j].type = "101"
  BY DEF WireWellFormed
<1>2. \A j \in 1..(i - 1) : j \in DOMAIN wire
  OBVIOUS
<1> QED
  BY <1>1, <1>2 DEF Switched, IsAnswer

LEMMA RouterSwitched ==
  ASSUME TypeOK, SourceInv, RouterAnswersAtOnce, AnswersOwed,
         handler = "router", pc # "ended", UpgradeSeen
  PROVE  Switched
<1>1. PICK i \in 1..decoded : sent[i].type = "upgrade"
  BY DEF UpgradeSeen
<1>2. i \in RequestAt
  BY <1>1 DEF RequestAt, IsFrame
<1>3. AnswerOwed(i)
  BY <1>2 DEF AnswersOwed
<1>4. OnWire(i)
  BY <1>3 DEF AnswerOwed, Left, InQueue, RouterAnswersAtOnce
<1>5. PICK j \in AnswerAt : wire[j].id = i
  BY <1>4 DEF OnWire
<1>6. AnswerOf(wire[j])
  BY DEF SourceInv, WireSource
<1> QED
  BY <1>1, <1>5, <1>6 DEF AnswerOf, Switched, AnswerAt

OrderInv == ClientInv /\ SourceInv /\ StateInv /\ PlaceInv
OwedInv  == RouterAnswersAtOnce /\ CarefulPushes /\ AnswersOwed

LEMMA ShownFits ==
  ASSUME TypeOK, OrderInv, OwedInv, WireWellFormed, kind = "HttpWs" \/ ~careless, Shown
  PROVE  Fits(Head(commands))
<1> DEFINE h == Head(commands)
<1>0. wire \in Seq(Sendable)
  BY DEF TypeOK
<1>1. Popped /\ ~Refused(h, state)
  BY DEF Shown, Popped
<1>2. h = commands[1] /\ 1 \in DOMAIN commands
  BY <1>1, QueuePops
<1>3. h \in Queued
  BY <1>2 DEF TypeOK
<1>4. /\ h.type # "push" => InQueue(h.id) /\ AnswerOf(h)
      /\ h.type = "push" => careless \/ Switched
  BY <1>2 DEF InQueue, OrderInv, SourceInv, QueueSource, OwedInv, CarefulPushes
<1> HIDE DEF h
<1>5. IsAnswer(h) <=> h.type # "push"
  BY <1>3 DEF Queued, IsAnswer
<1>6. IsAnswer(h) => ~Switched
  <2> SUFFICES ASSUME IsAnswer(h), Switched PROVE FALSE
    OBVIOUS
  <2>1. CASE kind = "HttpWs"
    BY <1>1, <2>1 DEF Refused, IsAnswer, OrderInv, StateInv, HttpState
  <2>2. CASE kind = "WebSocket"
    <3>1. AnswerOf(h) /\ InQueue(h.id)
      BY <1>4, <1>5
    <3>2. h.id \in 1..decoded /\ sent[h.id].type = "upgrade"
      BY <2>2, <3>1 DEF AnswerOf, OrderInv, StateInv, SocketState, RequestAt
    <3>3. PICK j \in DOMAIN wire : wire[j].type = "101"
      BY DEF Switched
    <3>4. j \in AnswerAt /\ AnswerOf(wire[j])
      BY <3>3 DEF AnswerAt, IsAnswer, OrderInv, SourceInv, WireSource
    <3>5. wire[j].id \in 1..decoded /\ sent[wire[j].id].type = "upgrade"
      BY <3>3, <3>4 DEF AnswerOf
    <3>6. wire[j].id = h.id
      BY <3>2, <3>5, SeenIsOne DEF OrderInv
    <3>7. OnWire(h.id) /\ h.id \in Nat
      BY <3>2, <3>4, <3>6 DEF OnWire
    <3> QED
      BY <3>1, <3>7 DEF OrderInv, PlaceInv, OnePlace
  <2> QED
    BY <2>1, <2>2 DEF TypeOK
<1>7. ~IsAnswer(h) => Switched
  <2>1. CASE kind = "HttpWs"
    BY <1>1, <2>1 DEF Refused, IsAnswer, OrderInv, StateInv, HttpState
  <2>2. CASE ~careless
    BY <1>4, <1>5, <2>2
  <2> QED
    BY <2>1, <2>2
<1> QED
  BY <1>0, <1>6, <1>7, BeforeSwitch DEF Fits, h

LEMMA RoutedFits ==
  ASSUME TypeOK, OrderInv, OwedInv, WireWellFormed, kind = "HttpWs" \/ ~careless,
         NEW st \in {"Http", "Frames"}, Routed(st)
  PROVE  Fits(Answer(sent[decoded + 1]))
<1> DEFINE m == sent[decoded + 1]
           e == Answer(m)
<1>0. wire \in Seq(Sendable) /\ pc = "decode" /\ handler = "router"
  BY DEF TypeOK, Routed, Taken
<1>1. Taken(st) /\ ~Refused(e, st)
  BY DEF Routed
<1>2. m \in Message /\ Suits(m, st)
  BY <1>1, TakenType DEF Taken
<1>3. IsAnswer(e) <=> ~IsFrame(m)
  BY <1>2, AnswerType
<1> HIDE DEF e, m
<1>4. CASE kind = "HttpWs"
  <2>1. (IsAnswer(e) <=> ~Switched)
    BY <1>1, <1>2, <1>4 DEF Refused, IsAnswer, OrderInv, StateInv, HttpState, Suits
  <2> QED
    BY <1>0, <2>1, BeforeSwitch DEF Fits, e, m
<1>5. CASE kind = "WebSocket"
  <2>0. state = IF UpgradeSeen THEN "Frames" ELSE "Handshake"
    BY <1>5 DEF OrderInv, StateInv, SocketState
  <2>1. CASE UpgradeSeen
    <3>1. IsFrame(m)
      BY <1>2, <2>0, <2>1 DEF Suits, IsFrame
    <3>2. Switched
      BY <1>0, <2>1, RouterSwitched DEF OrderInv, OwedInv
    <3> QED
      BY <1>3, <3>1, <3>2 DEF Fits, e, m
  <2>2. CASE ~UpgradeSeen
    <3>1. ~IsFrame(m)
      BY <1>2, <2>0, <2>2 DEF Suits, IsFrame
    <3>2. ~Switched
      BY <2>2, SwitchSeen DEF OrderInv
    <3> QED
      BY <1>0, <1>3, <3>1, <3>2, BeforeSwitch DEF Fits, e, m
  <2> QED
    BY <2>1, <2>2
<1> QED
  BY <1>4, <1>5 DEF TypeOK

LEMMA WellFormedKept ==
  ASSUME TypeOK, OrderInv, OwedInv, WireWellFormed, Steps PROVE WireWellFormed'
<1>0. UNCHANGED <<kind, careless>>
  BY Unmoved
<1>1. CASE wire' = wire
  BY <1>0, <1>1 DEF WireWellFormed, IsAnswer
<1>2. CASE Shown
  BY <1>0, <1>2, ShownFits, WellFormedStep DEF Shown
<1>3. ASSUME NEW st \in {"Http", "Frames"}, Routed(st) PROVE WireWellFormed'
  BY <1>0, <1>3, RoutedFits, WellFormedStep DEF Routed
<1> QED
  BY <1>1, <1>2, <1>3, WireCases

-----------------------------------------------------------------------------
(***************************************************************************)
(* Which state decodes a message.                                          *)
(***************************************************************************)
LEMMA NeverConfused ==
  ASSUME TypeOK, OrderInv, OwedInv, kind = "WebSocket" \/ handler = "router" \/ ~eager
  PROVE  ~Confused
<1> SUFFICES ASSUME Confused PROVE FALSE
  OBVIOUS
<1> DEFINE n == decoded + 1
<1>1. /\ n \in DOMAIN sent /\ decoded \in Nat /\ pc # "ended"
      /\ (IsFrame(sent[n]) /\ state # "Frames") \/ (~IsFrame(sent[n]) /\ state = "Frames")
  BY DEF Confused, TypeOK
<1>2. CASE IsFrame(sent[n]) /\ state # "Frames"
  <2>1. UpgradeSeen
    <3>1. \E i \in 1..(n - 1) : sent[i].type = "upgrade"
      BY <1>1, <1>2 DEF OrderInv, ClientInv, FramesLater
    <3>2. n - 1 = decoded
      BY <1>1
    <3> QED
      BY <3>1, <3>2 DEF UpgradeSeen
  <2>2. kind = "HttpWs" /\ ~Switched
    BY <1>2, <2>1 DEF TypeOK, OrderInv, StateInv, SocketState, HttpState
  <2>3. handler = "router" => Switched
    BY <1>1, <2>1, RouterSwitched DEF OrderInv, OwedInv
  <2>4. ~eager => Switched
    BY <1>1, <1>2 DEF OrderInv, ClientInv, Patient
  <2> QED
    BY <2>2, <2>3, <2>4
<1>3. CASE ~IsFrame(sent[n]) /\ state = "Frames"
  <2>1. UpgradeSeen
    BY <1>3, SwitchSeen DEF TypeOK, OrderInv, StateInv, SocketState, HttpState
  <2>2. PICK i \in 1..decoded : sent[i].type = "upgrade"
    BY <2>1 DEF UpgradeSeen
  <2>3. i \in DOMAIN sent /\ i < n
    BY <1>1 DEF TypeOK
  <2> QED
    BY <1>1, <1>3, <2>2, <2>3 DEF OrderInv, ClientInv, AsksOnce
<1> QED
  BY <1>1, <1>2, <1>3

LEMMA ReaderKept ==
  ASSUME TypeOK, OrderInv, OwedInv, RightReader, Steps PROVE RightReader'
<1> SUFFICES ASSUME kind = "WebSocket" \/ handler = "router" \/ ~eager
             PROVE  failure' # "Misread" /\ (pc' = "select" => decoded' = arrived')
  BY Unmoved DEF RightReader
<1>0. failure # "Misread" /\ (pc = "select" => decoded = arrived)
  BY DEF RightReader
<1>1. ASSUME NEW st, Decodes(st) PROVE failure' # "Misread" /\ pc' # "select"
  BY <1>0, <1>1 DEF Decodes, Routed, Stopped, Skipped, Deferred, Taken
<1>2. ASSUME ClientSends \/ TaskAnswers \/ TaskPushes \/ Shown \/ Denied
      PROVE  failure' # "Misread" /\ (pc' = "select" => decoded' = arrived')
  BY <1>0, <1>2 DEF ClientSends, TaskAnswers, TaskPushes, Shown, Denied
<1>3. ASSUME Read \/ Caught \/ Failed
      PROVE  failure' # "Misread" /\ (pc' = "select" => decoded' = arrived')
  BY <1>0, <1>3 DEF Read, Caught, Failed, Rest
<1> QED
  BY <1>1, <1>2, <1>3, NeverConfused DEF Steps

-----------------------------------------------------------------------------
(***************************************************************************)
(* The inductive invariant.                                                *)
(***************************************************************************)
UpgradeInv ==
  TypeOK /\ OrderInv /\ OwedInv /\ RouterOrder /\ WireWellFormed /\ RightReader

LEMMA InitInv == Init => UpgradeInv
<1> SUFFICES ASSUME Init PROVE UpgradeInv
  OBVIOUS
<1> DEFINE empty == <<>>
<1>1. TypeOK
  BY TypeInit
<1>2. /\ sent = empty /\ commands = empty /\ wire = empty /\ pending = {} /\ decoded = 0 /\ arrived = 0
      /\ state = Start(kind) /\ failure = "none" /\ pc = "select"
  BY DEF Init
<1>3. DOMAIN empty = {}
  OBVIOUS
<1> HIDE DEF empty
<1>4. ~Switched /\ ~UpgradeSeen /\ RequestAt = {} /\ AnswerAt = {}
  BY <1>2, <1>3 DEF Switched, UpgradeSeen, RequestAt, AnswerAt
<1>5. ClientInv /\ SourceInv
  BY <1>2, <1>3, <1>4 DEF ClientInv, Numbered, AsksOnce, FramesLater, Patient, SourceInv, PendingSource,
                          QueueSource, WireSource
<1>6. StateInv
  BY <1>2, <1>4 DEF StateInv, HttpState, SocketState, Start
<1>7. PlaceInv
  BY <1>2, <1>3, <1>4 DEF PlaceInv, WireOnce, QueueOnce, OnePlace, Left, InQueue, OnWire
<1>8. OwedInv /\ RouterOrder
  BY <1>2, <1>3, <1>4 DEF OwedInv, RouterAnswersAtOnce, CarefulPushes, AnswersOwed, RouterOrder
<1>9. WireWellFormed /\ RightReader
  BY <1>2, <1>3 DEF WireWellFormed, RightReader
<1> QED
  BY <1>1, <1>5, <1>6, <1>7, <1>8, <1>9 DEF UpgradeInv, OrderInv

LEMMA StepInv == UpgradeInv /\ [Next]_vars => UpgradeInv'
<1> SUFFICES ASSUME UpgradeInv, [Next]_vars PROVE UpgradeInv'
  OBVIOUS
<1>1. CASE Next
  <2>0. TypeOK /\ ClientInv /\ SourceInv /\ StateInv /\ PlaceInv /\ OrderInv /\ OwedInv
    BY DEF UpgradeInv, OrderInv
  <2>1. Steps
    BY <1>1, <2>0, NextSteps
  <2>2. TypeOK'
    BY <2>0, <2>1, TypeKept
  <2>3. ClientInv' /\ SourceInv' /\ StateInv' /\ PlaceInv'
    BY <2>0, <2>1, <2>2, ClientKept, SourceKept, StateKept, PlaceKept
  <2>4. RouterAnswersAtOnce' /\ CarefulPushes' /\ AnswersOwed'
    BY <2>0, <2>1, RouterKept, CarefulKept, OwedKept DEF OwedInv
  <2>5. RouterOrder' /\ WireWellFormed' /\ RightReader'
    BY <2>0, <2>1, OrderKept, WellFormedKept, ReaderKept DEF UpgradeInv, OwedInv
  <2> QED
    BY <2>2, <2>3, <2>4, <2>5 DEF UpgradeInv, OrderInv, OwedInv
<1>2. CASE UNCHANGED vars
  <2>1. /\ TypeOK' /\ RouterOrder' /\ WireWellFormed' /\ RightReader'
    BY <1>2 DEF vars, input, UpgradeInv, TypeOK, RouterOrder, WireWellFormed, RightReader, AnswerAt, IsAnswer
  <2>2. ClientInv' /\ SourceInv'
    BY <1>2 DEF vars, input, UpgradeInv, OrderInv, ClientInv, Numbered, AsksOnce, FramesLater, Patient,
                Switched, IsFrame, SourceInv, PendingSource, QueueSource, WireSource, AnswerOf, RequestAt,
                AnswerAt, IsAnswer
  <2>3. StateInv' /\ PlaceInv'
    BY <1>2 DEF vars, input, UpgradeInv, OrderInv, StateInv, HttpState, SocketState, Switched, UpgradeSeen,
                PlaceInv, WireOnce, QueueOnce, OnePlace, Left, InQueue, OnWire, RequestAt, AnswerAt,
                IsFrame, IsAnswer
  <2>4. OwedInv'
    BY <1>2 DEF vars, input, UpgradeInv, OwedInv, RouterAnswersAtOnce, CarefulPushes, AnswersOwed,
                AnswerOwed, Left, InQueue, OnWire, RequestAt, AnswerAt, Switched, IsFrame, IsAnswer
  <2> QED
    BY <2>1, <2>2, <2>3, <2>4 DEF UpgradeInv, OrderInv
<1> QED
  BY <1>1, <1>2

(***************************************************************************)
(* The client reads HTTP responses, one 101 response and then frames, for  *)
(* any number of messages and of frames that tasks send: with HttpWsCodec  *)
(* whenever tasks write, with WebSocketCodec when they wait for the 101.   *)
(***************************************************************************)
THEOREM WellFormedWire == Spec => []WireWellFormed
<1>1. UpgradeInv => WireWellFormed
  BY DEF UpgradeInv
<1> QED
  BY InitInv, StepInv, <1>1, PTL DEF Spec

(***************************************************************************)
(* No message is decoded in the other protocol's state, nor left in the    *)
(* buffer, with WebSocketCodec, with a handler that answers at once, and   *)
(* for a client that waits for the 101 response.                           *)
(***************************************************************************)
THEOREM DecodedRight == Spec => []RightReader
<1>1. UpgradeInv => RightReader
  BY DEF UpgradeInv
<1> QED
  BY InitInv, StepInv, <1>1, PTL DEF Spec

(***************************************************************************)
(* Every request that was decoded is answered once while the connection    *)
(* lives, and by a router in the order of the requests.                    *)
(***************************************************************************)
THEOREM AnsweredOnce == Spec => []AnswersMatch
<1>1. UpgradeInv => AnswersMatch
  <2> SUFFICES ASSUME UpgradeInv PROVE AnswersMatch
    OBVIOUS
  <2>0. /\ TypeOK /\ Numbered /\ WireSource /\ WireOnce
        /\ AnswersOwed /\ RouterAnswersAtOnce /\ RouterOrder
    BY DEF UpgradeInv, OrderInv, ClientInv, SourceInv, PlaceInv, OwedInv
  <2>1. \A i \in RequestAt : sent[i].id = i
    BY <2>0 DEF RequestAt, Numbered, TypeOK
  <2>2. \A j \in AnswerAt : \E i \in RequestAt : sent[i].id = wire[j].id
    BY <2>0, <2>1 DEF WireSource, AnswerOf, RequestAt
  <2>3. pc = "select" /\ commands = <<>> /\ pending = {} => AllAnswered
    BY <2>0, <2>1 DEF AnswersOwed, AnswerOwed, Left, InQueue, OnWire, AllAnswered
  <2>4. pc = "select" /\ handler = "router" => AllAnswered
    BY <2>0, <2>1 DEF AnswersOwed, AnswerOwed, Left, InQueue, OnWire, AllAnswered, RouterAnswersAtOnce
  <2> QED
    BY <2>0, <2>2, <2>3, <2>4 DEF AnswersMatch, WireOnce, RouterOrder
<1> QED
  BY InitInv, StepInv, <1>1, PTL DEF Spec
=============================================================================
