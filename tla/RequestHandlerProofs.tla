------------------------ MODULE RequestHandlerProofs ------------------------
(***************************************************************************)
(* The safety properties of a connection.  They have one inductive         *)
(* invariant, whose parts say where a connection can be with what in its   *)
(* buffer, on the wire, with the backend and in the statistics.            *)
(***************************************************************************)
EXTENDS RequestHandler, TLAPS

Codes == {200, 400, 500, 403, 502, 504}

(* The client takes code for the status of what the lines begin.           *)
Begins(lines, code) == lines # <<>> /\ Last(lines) = code

(* The types of what TypeOK leaves open.                                   *)
Typed ==
  /\ TypeOK
  /\ buffer \in Seq(Codes) /\ wire \in Seq(Piece) /\ status \in Codes \cup {0}

(* The last status line that was begun is the next or the last to be       *)
(* written, and its body comes right after it.                             *)
InOrder ==
  /\ pc \in {"read", "process", "head", "ownHead"} => Begins(buffer, status)
  /\ pc \in {"body", "ownBody"} => wire # <<>> /\ Begins(Last(wire).lines, status)
  /\ pc \in {"count", "closed"} =>
       /\ Len(wire) >= 2 /\ Last(wire).body = body
       /\ Begins(wire[Len(wire) - 1].lines, status)

(* Which bodies go with which status, and when the status is counted.      *)
Matched ==
  /\ pc \in {"read", "process", "head", "body"} => status \in {200, 400, 500}
  /\ pc \in {"head", "body"} => body \in {"raw", "repacked", "emptied", "text"}
  /\ pc \in {"ownHead", "ownBody", "count"} =>
       IF sent = <<>> THEN body \in {"own", "error"}
       ELSE IF body = "error" THEN status \in {502, 504}
       ELSE pc = "count" /\ status \in {200, 400, 500}
            /\ body \in {"raw", "repacked", "emptied"}
  /\ counted # 0 =>
       /\ pc = "closed" /\ counted = status
       /\ body \in IF counted \in {502, 504} THEN {"error"}
                   ELSE {"raw", "repacked", "emptied"}

(* What has been sent to the backend, and what a refusal looks like.       *)
Kept ==
  /\ pc \in {"start", "send"} => sent = <<>>
  /\ pc = "start" => buffer = <<>> /\ wire = <<>>
  /\ pc \in {"read", "process", "head", "body", "timedOut"} => sent # <<>>
  /\ (pc = "send" \/ sent # <<>>) /\ request.method = "POST" =>
       request.sound /\ ~Refused
  /\ request.method = "POST" /\ sent = <<>> =>
       /\ pc = "ownHead" => wire = <<>> /\ buffer = <<403>> /\ body = "error"
       /\ pc = "ownBody" => wire = <<StatusLines(<<403>>)>> /\ body = "error"
       /\ pc \in {"count", "closed"} =>
            wire = <<StatusLines(<<403>>), Body("error")>>

(* What has been recorded of the run.                                      *)
Recorded ==
  /\ saved # <<>> => sent # <<>> /\ IsQuery
  /\ pc \in {"start", "send", "read", "process"} => saved = <<>>
  /\ pc \in {"head", "body"} => saved \in {<<>>, <<"run">>}
  /\ pc = "timedOut" => saved = <<>> \/ (saved = <<"run">> /\ client = "stalls")
  /\ \/ saved \in {<<>>, <<"run">>, <<"timeout">>}
     \/ saved = <<"run", "timeout">> /\ client = "stalls"

ConnInv == Typed /\ InOrder /\ Matched /\ Kept /\ Recorded /\ SilenceIsExplained

-----------------------------------------------------------------------------
(* Lemmas                                                                  *)

LEMMA Appended ==
  ASSUME NEW S, NEW s \in Seq(S), NEW x \in S
  PROVE  /\ Append(s, x) \in Seq(S) /\ Append(s, x) # <<>>
         /\ Last(Append(s, x)) = x
         /\ s # <<>> => /\ Len(Append(s, x)) >= 2
                        /\ Append(s, x)[Len(Append(s, x)) - 1] = Last(s)
<1>1. /\ Append(s, x) \in Seq(S) /\ Len(Append(s, x)) = Len(s) + 1 /\ Len(s) \in Nat
      /\ Append(s, x)[Len(s) + 1] = x
      /\ \A i \in 1 .. Len(s) : Append(s, x)[i] = s[i]
  OBVIOUS
<1>2. Append(s, x) # <<>>
  BY <1>1
<1>3. s # <<>> => Len(s) >= 1
  OBVIOUS
<1> QED
  BY <1>1, <1>2, <1>3 DEF Last

(* A reply that is begun is at the end of the buffer.                      *)
LEMMA Begun ==
  ASSUME buffer \in Seq(Codes), NEW code \in Codes, buffer' = Append(buffer, code)
  PROVE  buffer' \in Seq(Codes) /\ Begins(buffer', code)
  BY Appended DEF Begins

LEMMA Pieces ==
  /\ \A kind \in Bodies \cup {"cut"} :
       Body(kind) \in Piece /\ Body(kind).lines = <<>> /\ Body(kind).body = kind
  /\ \A lines \in Seq(Codes) :
       StatusLines(lines) \in Piece /\ StatusLines(lines).lines = lines
  BY DEF Body, StatusLines, Piece, Bodies, Codes

(* What a write does to the wire, done or not.                             *)
LEMMA OnTheWire ==
  ASSUME wire \in Seq(Piece), NEW piece \in Piece
  PROVE  /\ Written(piece) =>
              /\ client' = client /\ wire' = Append(wire, piece)
              /\ wire' \in Seq(Piece) /\ wire' # <<>> /\ Last(wire') = piece
              /\ wire # <<>> => Len(wire') >= 2 /\ wire'[Len(wire') - 1] = Last(wire)
         /\ Stalled => wire' \in Seq(Piece) /\ client = "stalls" /\ client' = client
         /\ Failed => wire' \in Seq(Piece) /\ client' = "gone" /\ client # "stalls"
<1>1. Body("cut") \in Piece
  BY Pieces
<1>2. wire' = wire \/ wire' = Append(wire, Body("cut")) => wire' \in Seq(Piece)
  BY <1>1, Appended
<1>3. Written(piece) =>
        /\ client' = client /\ wire' = Append(wire, piece)
        /\ wire' \in Seq(Piece) /\ wire' # <<>> /\ Last(wire') = piece
        /\ wire # <<>> => Len(wire') >= 2 /\ wire'[Len(wire') - 1] = Last(wire)
  BY Appended DEF Written
<1> QED
  BY <1>2, <1>3 DEF Stalled, Failed, InPart

-----------------------------------------------------------------------------
(* Types                                                                   *)

LEMMA ConnInit == Init => ConnInv
<1> SUFFICES ASSUME Init PROVE ConnInv
  OBVIOUS
<1>1. Typed
  BY DEF Init, Typed, TypeOK, Bodies, Piece
<1>2. InOrder /\ Matched /\ Kept /\ Recorded /\ SilenceIsExplained
  BY DEF Init, InOrder, Matched, Kept, Recorded, SilenceIsExplained
<1> QED
  BY <1>1, <1>2 DEF ConnInv

(* Neither the request nor Redis changes, nor what follows from them.       *)
LEMMA Fixed ==
  [Next]_vars =>
    /\ safeMode' = safeMode /\ request' = request /\ redis' = redis
    /\ Forwarded' = Forwarded
    /\ (IsQuery' <=> IsQuery) /\ (IsPut' <=> IsPut) /\ (Refused' <=> Refused)
    /\ \A path \in {"top", "put", "query"} : At(path)' <=> At(path)
<1> SUFFICES ASSUME [Next]_vars
             PROVE  safeMode' = safeMode /\ request' = request /\ redis' = redis
  BY DEF Forwarded, IsQuery, IsPut, Refused, At
<1> QED
  BY DEF Next, Hang, OwnPage, PassThrough, Refuse, Allow, Unusable, Answered, Unanswered,
     RequestFails, Read, Process, ReturnHead, ReturnBody, TimedOut, OwnHead, OwnBody,
     Close, exchange, others, vars

LEMMA TypedStep == Typed /\ Kept /\ [Next]_vars => Typed'
<1> SUFFICES ASSUME Typed, Kept, [Next]_vars PROVE Typed'
  OBVIOUS
<1>1. /\ TypeOK /\ buffer \in Seq(Codes) /\ wire \in Seq(Piece)
      /\ status \in Codes \cup {0}
  BY DEF Typed
<1>2. /\ safeMode' = safeMode /\ request' = request /\ redis' = redis
      /\ reply' = reply \/ reply' \in Reply
  BY Fixed DEF Next, Hang, OwnPage, PassThrough, Refuse, Allow, Unusable, Answered,
     Unanswered, RequestFails, Read, Process, ReturnHead, ReturnBody, TimedOut, OwnHead,
     OwnBody, Close, exchange, others, vars
<1>3. sent' \in {<<>>, <<Forwarded'>>}
  <2>1. Append(<<>>, Forwarded) = <<Forwarded>>
    OBVIOUS
  <2>2. sent' = sent \/ (pc = "send" /\ sent' = Append(sent, Forwarded))
    BY DEF Next, Hang, OwnPage, PassThrough, Refuse, Allow, Unusable, Answered,
       Unanswered, RequestFails, Requested, Read, Process, ReturnHead, ReturnBody,
       TimedOut, OwnHead, OwnBody, Close, exchange, others, vars
  <2>3. pc = "send" => sent = <<>>
    BY DEF Kept
  <2> QED
    BY <1>1, <2>1, <2>2, <2>3, Fixed DEF TypeOK
<1>4. wire' \in Seq(Piece) /\ client' \in {"reads", "stalls", "leaves", "gone"}
  <2>1. CASE ReturnHead \/ OwnHead
    <3>1. StatusLines(buffer) \in Piece
      BY <1>1, Pieces
    <3> QED
      BY <1>1, <2>1, <3>1, OnTheWire DEF ReturnHead, OwnHead, TypeOK
  <2>2. CASE ReturnBody \/ OwnBody
    <3>1. Body(body) \in Piece
      BY <1>1, Pieces DEF TypeOK
    <3> QED
      BY <1>1, <2>2, <3>1, OnTheWire DEF ReturnBody, OwnBody, TypeOK
  <2>3. CASE ~(ReturnHead \/ OwnHead \/ ReturnBody \/ OwnBody)
    BY <1>1, <2>3 DEF Next, Hang, OwnPage, PassThrough, Refuse, Allow, Unusable, Answered,
       Unanswered, RequestFails, Read, Process, TimedOut, Close, exchange, others, vars,
       TypeOK
  <2> QED
    BY <2>1, <2>2, <2>3
<1>5. /\ buffer' \in Seq(Codes) /\ status' \in Codes \cup {0} /\ body' \in Bodies
      /\ pc' \in {"start", "send", "read", "process", "head", "body", "timedOut",
                  "ownHead", "ownBody", "count", "closed", "dropped", "hung"}
  <2>1. <<200>> \in Seq(Codes) /\ <<>> \in Seq(Codes)
    BY DEF Codes
  <2>2. ASSUME NEW code \in {403, 502, 504}, SendError(code)
        PROVE  /\ buffer' \in Seq(Codes) /\ status' \in Codes \cup {0}
               /\ body' \in Bodies /\ pc' = "ownHead"
    BY <1>1, <2>2, Begun DEF SendError, Codes, Bodies
  <2>3. CASE Answered
    <3>1. reply'.status \in Codes
      BY <2>3 DEF Answered, Reply, Codes
    <3> QED
      BY <1>1, <2>3, <3>1, Begun DEF Answered, TypeOK
  <2>4. CASE Process
    <3>1. \/ SendError(502)
          \/ pc' = "head" /\ body' \in Bodies /\ buffer' = buffer /\ status' = status
      <4>1. Processed(reply) \in {"raw", "text", "raises", "repacked", "emptied"}
        BY DEF Processed
      <4>2. /\ Processed(reply) = "raises" => SendError(502)
            /\ Processed(reply) # "raises" =>
                 pc' = "head" /\ body' = Processed(reply) /\ buffer' = buffer /\ status' = status
        BY <2>4 DEF Process
      <4> QED
        BY <4>1, <4>2 DEF Bodies
    <3> QED
      BY <1>1, <2>2, <3>1
  <2>5. CASE OwnPage
    <3>1. \/ pc' = "dropped" /\ buffer' = buffer /\ body' = body /\ status' = status
          \/ pc' = "ownHead" /\ buffer' = <<200>> /\ body' = "own" /\ status' = 200
      BY <2>5 DEF OwnPage, Drop
    <3> QED
      <4>1. 200 \in Codes /\ "own" \in Bodies
        BY DEF Codes, Bodies
      <4> QED
        BY <1>1, <2>1, <3>1, <4>1 DEF TypeOK
  <2>6. CASE Hang \/ PassThrough \/ Allow \/ Unusable \/ Unanswered
    BY <1>1, <2>6 DEF Hang, PassThrough, Allow, Unusable, Unanswered, Drop, TypeOK
  <2>7. CASE Refuse \/ RequestFails \/ Read \/ TimedOut
    <3>1. \/ \E code \in {403, 502, 504} : SendError(code)
          \/ /\ pc' \in {"process", "timedOut", "dropped"} /\ buffer' = buffer
             /\ body' = body /\ status' = status
      BY <2>7 DEF Refuse, RequestFails, Read, TimedOut, Drop
    <3> QED
      BY <1>1, <2>2, <3>1 DEF TypeOK
  <2>8. CASE ReturnHead \/ ReturnBody \/ OwnHead \/ OwnBody
    <3>1. \/ SendError(502)
          \/ /\ buffer' = <<>> \/ buffer' = buffer
             /\ body' = body /\ status' = status
             /\ pc' \in {"body", "timedOut", "ownBody", "count", "dropped"}
      BY <2>8 DEF ReturnHead, ReturnBody, OwnHead, OwnBody, Drop
    <3> QED
      <4>1. CASE SendError(502)
        BY <2>2, <4>1
      <4>2. CASE ~SendError(502)
        BY <1>1, <2>1, <3>1, <4>2 DEF TypeOK
      <4> QED
        BY <4>1, <4>2
  <2>9. CASE Close \/ UNCHANGED vars
    BY <1>1, <2>9 DEF Close, TypeOK, vars
  <2> QED
    BY <2>3, <2>4, <2>5, <2>6, <2>7, <2>8, <2>9 DEF Next
<1>6. \A i \in DOMAIN wire' : wire'[i] \in Piece
  BY <1>4
<1> QED
  BY <1>1, <1>2, <1>3, <1>4, <1>5, <1>6 DEF Typed, TypeOK

-----------------------------------------------------------------------------
(* Order on the wire                                                       *)

LEMMA InOrderStep == Typed /\ InOrder /\ [Next]_vars => InOrder'
<1> SUFFICES ASSUME Typed, InOrder, [Next]_vars PROVE InOrder'
  OBVIOUS
<1>1. buffer \in Seq(Codes) /\ wire \in Seq(Piece) /\ body \in Bodies
  BY DEF Typed, TypeOK
<1>2. pc' \in {"start", "send", "timedOut", "dropped", "hung"} => InOrder'
  BY DEF InOrder
<1>3. ASSUME NEW code \in {403, 502, 504}, SendError(code) PROVE InOrder'
  <2>1. code \in Codes
    BY DEF Codes
  <2> QED
    BY <1>1, <1>3, <2>1, Begun DEF SendError, InOrder
<1>4. CASE OwnPage
  <2>1. Begins(<<200>>, 200)
    BY DEF Begins, Last
  <2>2. pc' = "dropped" \/ (pc' = "ownHead" /\ buffer' = <<200>> /\ status' = 200)
    BY <1>4 DEF OwnPage, Drop
  <2> QED
    BY <1>2, <2>1, <2>2 DEF InOrder
<1>5. CASE Hang \/ PassThrough \/ Allow \/ Unusable \/ Unanswered
  BY <1>2, <1>5 DEF Hang, PassThrough, Allow, Unusable, Drop, Unanswered
<1>6. CASE Refuse \/ RequestFails
  BY <1>3, <1>6 DEF Refuse, RequestFails
<1>7. CASE Answered
  <2>1. reply'.status \in Codes
    BY <1>7 DEF Answered, Reply, Codes
  <2> QED
    BY <1>1, <1>7, <2>1, Begun DEF Answered, InOrder
<1>8. CASE Read
  BY <1>2, <1>3, <1>8 DEF Read, InOrder
<1>9. CASE Process
  BY <1>3, <1>9 DEF Process, InOrder
<1>10. CASE ReturnHead \/ OwnHead
  <2>1. StatusLines(buffer) \in Piece /\ StatusLines(buffer).lines = buffer
    BY <1>1, Pieces
  <2>2. ASSUME Written(StatusLines(buffer)), pc' \in {"body", "ownBody"}, status' = status
        PROVE  InOrder'
    <3>1. Begins(buffer, status)
      BY <1>10 DEF ReturnHead, OwnHead, InOrder
    <3>2. wire' # <<>> /\ Last(wire') = StatusLines(buffer)
      BY <1>1, <2>1, <2>2, OnTheWire
    <3> QED
      BY <2>1, <2>2, <3>1, <3>2 DEF InOrder
  <2> QED
    BY <1>2, <1>3, <1>10, <2>2 DEF ReturnHead, OwnHead, Drop
<1>11. CASE ReturnBody \/ OwnBody
  <2>1. Body(body) \in Piece /\ Body(body).body = body
    BY <1>1, Pieces
  <2>2. ASSUME Written(Body(body)), pc' = "count", status' = status, body' = body
        PROVE  InOrder'
    <3>1. wire # <<>> /\ Begins(Last(wire).lines, status)
      BY <1>11 DEF ReturnBody, OwnBody, InOrder
    <3>2. /\ Len(wire') >= 2 /\ wire'[Len(wire') - 1] = Last(wire)
          /\ Last(wire') = Body(body)
      BY <1>1, <2>1, <2>2, <3>1, OnTheWire
    <3> QED
      BY <2>1, <2>2, <3>1, <3>2 DEF InOrder
  <2> QED
    BY <1>2, <1>3, <1>11, <2>2 DEF ReturnBody, OwnBody, Drop
<1>12. CASE TimedOut
  BY <1>2, <1>3, <1>12 DEF TimedOut, Drop
<1>13. CASE Close \/ UNCHANGED vars
  BY <1>13 DEF Close, InOrder, vars
<1> QED
  BY <1>4, <1>5, <1>6, <1>7, <1>8, <1>9, <1>10, <1>11, <1>12, <1>13 DEF Next

-----------------------------------------------------------------------------
(* Statuses and bodies                                                     *)

LEMMA MatchedStep == Typed /\ Matched /\ Kept /\ [Next]_vars => Matched'
<1> SUFFICES ASSUME Typed, Matched, Kept, [Next]_vars PROVE Matched'
  OBVIOUS
<1>1. sent \in {<<>>, <<Forwarded>>} /\ (pc = "send" => sent = <<>>)
      /\ (pc \in {"read", "process", "head", "body", "timedOut"} => sent # <<>>)
  BY DEF Typed, TypeOK, Kept
<1>2. ASSUME pc' \in {"start", "send", "timedOut", "dropped", "hung"}, counted' = 0
      PROVE  Matched'
  BY <1>2 DEF Matched
<1>3. pc # "closed" => counted = 0
  BY DEF Matched
<1>4. ASSUME NEW code \in {502, 504}, SendError(code), sent' # <<>>, counted' = 0
      PROVE  Matched'
  BY <1>4 DEF SendError, Matched
<1>5. CASE OwnPage \/ Refuse
  <2>1. pc # "closed" /\ counted' = counted /\ sent' = sent /\ pc = "start"
    BY <1>5 DEF OwnPage, Refuse, exchange
  <2>2. sent = <<>>
    BY <2>1 DEF Kept
  <2>3. pc' = "dropped" \/ (pc' = "ownHead" /\ body' \in {"own", "error"})
    BY <1>5 DEF OwnPage, Refuse, SendError, Drop
  <2> QED
    BY <1>2, <1>3, <2>1, <2>2, <2>3 DEF Matched
<1>6. CASE Hang \/ PassThrough \/ Allow \/ Unusable \/ Unanswered
  BY <1>2, <1>3, <1>6 DEF Hang, Stuck, AsksRedis, PassThrough, Allow, Unusable, Drop,
     Unanswered, Requested, exchange, others
<1>7. CASE Answered
  BY <1>3, <1>7 DEF Answered, Requested, Reply, Matched, others
<1>8. CASE RequestFails
  BY <1>1, <1>3, <1>4, <1>8 DEF RequestFails, Requested, others
<1>9. CASE Read
  BY <1>1, <1>2, <1>3, <1>4, <1>9 DEF Read, Matched, exchange
<1>10. CASE Process
  <2>1. Processed(reply) \in {"raw", "text", "raises", "repacked", "emptied"}
    BY DEF Processed
  <2>2. pc = "process" /\ sent' # <<>> /\ counted' = 0 /\ status \in {200, 400, 500}
    BY <1>1, <1>3, <1>10 DEF Process, Matched
  <2>3. CASE Processed(reply) = "raises"
    BY <1>4, <1>10, <2>2, <2>3 DEF Process
  <2>4. CASE Processed(reply) # "raises"
    BY <1>10, <2>1, <2>2, <2>4 DEF Process, Matched
  <2> QED
    BY <2>3, <2>4
<1>11. CASE ReturnHead
  BY <1>1, <1>2, <1>3, <1>4, <1>11 DEF ReturnHead, Matched, exchange
<1>12. CASE ReturnBody
  <2>1. /\ sent' # <<>> /\ counted' = 0 /\ status \in {200, 400, 500}
        /\ body \in {"raw", "repacked", "emptied", "text"}
    BY <1>1, <1>3, <1>12 DEF ReturnBody, Matched, exchange
  <2>2. \/ SendError(502) \/ pc' = "timedOut"
        \/ pc' = "count" /\ body # "text" /\ body' = body /\ status' = status
    BY <1>12 DEF ReturnBody
  <2> QED
    BY <1>2, <1>4, <2>1, <2>2 DEF Matched
<1>13. CASE TimedOut
  BY <1>1, <1>2, <1>3, <1>4, <1>13 DEF TimedOut, Drop
<1>14. CASE OwnHead \/ OwnBody
  BY <1>2, <1>3, <1>14 DEF OwnHead, OwnBody, Drop, Matched, exchange
<1>15. CASE Close
  <2>1. /\ pc = "count" /\ pc' = "closed" /\ status' = status /\ body' = body
        /\ counted' # 0 => sent # <<>> /\ counted' = status
    BY <1>1, <1>15 DEF Close
  <2> QED
    BY <2>1 DEF Matched
<1>16. CASE UNCHANGED vars
  BY <1>16 DEF Matched, vars
<1> QED
  BY <1>5, <1>6, <1>7, <1>8, <1>9, <1>10, <1>11, <1>12, <1>13, <1>14, <1>15, <1>16 DEF Next

-----------------------------------------------------------------------------
(* The gate                                                                *)

LEMMA KeptStep == Typed /\ Kept /\ [Next]_vars => Kept'
<1> SUFFICES ASSUME Typed, Kept, [Next]_vars PROVE Kept'
  OBVIOUS
<1>1. sent \in {<<>>, <<Forwarded>>} /\ request.method \in {"GET", "POST"}
  BY DEF Typed, TypeOK, Request
<1>2. request' = request /\ safeMode' = safeMode
  BY Fixed
<1>3. Refused' <=> Refused
  BY Fixed
<1>4. CASE Hang \/ OwnPage \/ PassThrough \/ Unusable
  BY <1>1, <1>2, <1>3, <1>4 DEF Hang, OwnPage, PassThrough, Unusable, Drop, exchange, Kept
<1>5. CASE Refuse
  <2>1. pc' = "ownHead" /\ sent' = <<>> /\ wire' = <<>> /\ body' = "error"
    BY <1>5 DEF Refuse, SendError, exchange, Kept
  <2>2. buffer' = <<403>>
    BY <1>5 DEF Refuse, SendError, Kept
  <2> QED
    BY <1>2, <2>1, <2>2 DEF Kept
<1>6. CASE Allow
  <2>1. pc' = "send" /\ sent' = <<>> /\ request.sound /\ ~Refused
    BY <1>1, <1>6 DEF Allow, exchange, Kept
  <2> QED
    BY <1>2, <1>3, <2>1 DEF Kept
<1>7. CASE Answered \/ Unanswered \/ RequestFails
  <2>1. sent' # <<>> /\ pc' \in {"read", "timedOut", "ownHead"}
        /\ (request.method = "POST" => request.sound /\ ~Refused)
    BY <1>7 DEF Answered, Unanswered, RequestFails, Requested, SendError, Kept
  <2> QED
    BY <1>2, <1>3, <2>1 DEF Kept
<1>8. CASE Read \/ Process \/ ReturnHead \/ ReturnBody \/ TimedOut
  <2>1. /\ sent # <<>> /\ sent' # <<>>
        /\ pc' \in {"process", "head", "body", "timedOut", "ownHead", "count", "dropped"}
    BY <1>8 DEF Read, Process, ReturnHead, ReturnBody, TimedOut, SendError, Drop,
       exchange, Kept
  <2> QED
    BY <1>2, <1>3, <2>1 DEF Kept
<1>9. CASE OwnHead
  <2>1. pc = "ownHead" /\ sent' = sent /\ pc' \in {"ownBody", "dropped"} /\ body' = body
    BY <1>9 DEF OwnHead, Drop, exchange
  <2>2. ASSUME pc' = "ownBody", wire = <<>>, buffer = << 403 >>
        PROVE  wire' = <<StatusLines(<<403>>)>>
    BY <1>9, <2>2 DEF OwnHead, Written, Drop
  <2> QED
    BY <1>2, <1>3, <2>1, <2>2 DEF Kept
<1>10. CASE OwnBody
  <2>1. pc = "ownBody" /\ sent' = sent /\ pc' \in {"count", "dropped"} /\ body' = body
    BY <1>10 DEF OwnBody, Drop, exchange
  <2>2. ASSUME pc' = "count", wire = <<StatusLines(<< 403 >>)>>, body = "error"
        PROVE  wire' = <<StatusLines(<<403>>), Body("error")>>
    BY <1>10, <2>2 DEF OwnBody, Written, Drop
  <2> QED
    BY <1>2, <1>3, <2>1, <2>2 DEF Kept
<1>11. CASE Close
  BY <1>2, <1>3, <1>11 DEF Close, Kept
<1>12. CASE UNCHANGED vars
  BY <1>3, <1>12 DEF Kept, vars
<1> QED
  BY <1>4, <1>5, <1>6, <1>7, <1>8, <1>9, <1>10, <1>11, <1>12 DEF Next

-----------------------------------------------------------------------------
(* The statistics and the silence                                          *)

LEMMA RecordedStep == Typed /\ Kept /\ Recorded /\ [Next]_vars => Recorded'
<1> SUFFICES ASSUME Typed, Kept, Recorded, [Next]_vars PROVE Recorded'
  OBVIOUS
<1>1. (client = "stalls" => client' = "stalls") /\ (IsQuery' <=> IsQuery)
  BY Fixed DEF Next, Hang, OwnPage, PassThrough, Refuse, Allow, Unusable, Answered, Unanswered,
     RequestFails, Read, Process, ReturnHead, ReturnBody, TimedOut, OwnHead, OwnBody,
     Close, exchange, others, vars, Written, Stalled, Failed
<1>2. ASSUME UNCHANGED <<saved, request>>, sent' = sent,
             \/ pc' \in {"ownHead", "ownBody", "count", "closed", "dropped", "hung"}
             \/ saved = <<>>
      PROVE  Recorded'
  BY <1>1, <1>2 DEF Recorded
<1>3. CASE Hang \/ OwnPage \/ PassThrough \/ Refuse \/ Allow \/ Unusable \/ Read
  BY <1>2, <1>3 DEF Hang, OwnPage, PassThrough, Refuse, Allow, Unusable, Read, exchange, Recorded
<1>4. CASE Answered \/ Unanswered \/ RequestFails
  BY <1>1, <1>4 DEF Answered, Unanswered, RequestFails, Requested, SendError, others, Recorded
<1>5. CASE Process
  <2>1. /\ saved = <<>> /\ sent' # <<>> /\ request' = request
        /\ pc' \in {"head", "ownHead"}
    BY <1>5 DEF Process, SendError, Recorded, Kept
  <2>2. saved' = <<>> \/ (saved' = <<"run">> /\ IsQuery)
    BY <1>5, <2>1 DEF Process, Saves
  <2> QED
    BY <1>1, <2>1, <2>2 DEF Recorded
<1>6. CASE ReturnHead \/ ReturnBody
  <2>1. /\ saved \in {<<>>, <<"run">>} /\ UNCHANGED <<saved, request, sent>>
        /\ pc' \in {"body", "timedOut", "ownHead", "count"}
        /\ pc' = "timedOut" => client = "stalls" /\ client' = client
    BY <1>6 DEF ReturnHead, ReturnBody, SendError, Stalled, exchange, Recorded
  <2> QED
    BY <1>1, <2>1 DEF Recorded
<1>7. CASE TimedOut
  <2>1. /\ saved = <<>> \/ (saved = <<"run">> /\ client = "stalls")
        /\ request' = request /\ sent' = sent /\ sent # <<>> /\ pc' \in {"ownHead", "dropped"}
    BY <1>7 DEF TimedOut, SendError, Drop, Recorded, Kept
  <2>2. \/ saved' = saved
        \/ IsQuery /\ saved' = Append(saved, "timeout")
    BY <1>7 DEF TimedOut
  <2>3. saved' \in {saved, <<"timeout">>}
        \/ (saved' = <<"run", "timeout">> /\ client = "stalls")
    <3>1. Append(<<>>, "timeout") = <<"timeout">>
      OBVIOUS
    <3>2. Append(<<"run">>, "timeout") = <<"run", "timeout">>
      <4> DEFINE both == [i \in 1 .. 2 |-> IF i = 1 THEN "run" ELSE "timeout"]
      <4>1. Append(<<"run">>, "timeout") = both
        OBVIOUS
      <4>2. <<"run", "timeout">> = both
        OBVIOUS
      <4> QED
        BY <4>1, <4>2
    <3> QED
      BY <2>1, <2>2, <3>1, <3>2
  <2> QED
    BY <1>1, <2>1, <2>2, <2>3 DEF Recorded
<1>8. CASE OwnHead \/ OwnBody \/ Close
  BY <1>2, <1>8 DEF OwnHead, OwnBody, Close, Drop, exchange
<1>9. CASE UNCHANGED vars
  BY <1>1, <1>9 DEF Recorded, vars
<1> QED
  BY <1>3, <1>4, <1>5, <1>6, <1>7, <1>8, <1>9 DEF Next

LEMMA SilenceStep == Typed /\ Kept /\ SilenceIsExplained /\ [Next]_vars => SilenceIsExplained'
<1> SUFFICES ASSUME Typed, Kept, SilenceIsExplained, [Next]_vars,
                    pc' = "dropped", wire' = <<>>
             PROVE  SilenceIsExplained'
  BY DEF SilenceIsExplained
<1>1. /\ request' = request /\ redis' = redis /\ (IsQuery' <=> IsQuery)
      /\ At("top")' <=> At("top")
  BY Fixed
<1>2. /\ request.end \in {"absolute", "relative"}
      /\ redis \in {"up", "down", "breaks", "silent"}
  BY DEF Typed, TypeOK, Request
<1>3. CASE OwnPage
  <2>1. request.method = "GET" /\ At("top") /\ redis \in {"down", "breaks"}
    BY <1>2, <1>3 DEF OwnPage, Stuck, AsksRedis
  <2> QED
    BY <1>1, <2>1 DEF SilenceIsExplained
<1>4. CASE Unusable
  <2>1. request.method = "POST" /\ UNCHANGED client
    BY <1>4 DEF Unusable
  <2>2. \/ ~request.sound
        \/ /\ redis \in {"up", "breaks"} /\ IsQuery /\ request.end = "relative"
           /\ request.guarded
        \/ IsQuery /\ request.guarded /\ redis = "breaks"
    BY <1>4 DEF Unusable, NoInterval
  <2> QED
    BY <1>1, <2>1, <2>2 DEF SilenceIsExplained
<1>5. CASE TimedOut
  <2>1. sent # <<>> /\ sent' = sent /\ redis # "down" /\ request.method = "POST"
    BY <1>5 DEF TimedOut, Kept, SendError
  <2>2. ~(IsQuery /\ request.end = "absolute" /\ redis = "up") /\ redis # "silent"
    BY <1>5, <2>1 DEF TimedOut, SendError, Stuck, AsksRedis
  <2> QED
    BY <1>1, <1>2, <2>1, <2>2 DEF SilenceIsExplained
<1>6. CASE OwnHead \/ OwnBody
  BY <1>6 DEF OwnHead, OwnBody, Stalled, Failed, SilenceIsExplained
<1>7. CASE UNCHANGED vars
  BY <1>1, <1>7 DEF vars, SilenceIsExplained
<1>8. CASE Hang \/ PassThrough \/ Refuse \/ Allow \/ Answered \/ Unanswered \/ RequestFails
           \/ Read \/ Process \/ ReturnHead \/ ReturnBody \/ Close
  BY <1>8 DEF Hang, PassThrough, Refuse, Allow, Answered, Unanswered, RequestFails, Read,
     Process, ReturnHead, ReturnBody, Close, SendError
<1> QED
  BY <1>3, <1>4, <1>5, <1>6, <1>7, <1>8 DEF Next

-----------------------------------------------------------------------------
(* Theorems                                                                *)

LEMMA ConnInvariant == Spec => []ConnInv
<1>1. ConnInv /\ [Next]_vars => ConnInv'
  BY TypedStep, InOrderStep, MatchedStep, KeptStep, RecordedStep, SilenceStep DEF ConnInv
<1> QED
  BY <1>1, ConnInit, PTL DEF Spec

(* The variables of a connection keep their types, and what is on the wire *)
(* is a sequence of status lines and bodies.                               *)
THEOREM HandlerTypeCorrect == Spec => []TypeOK
<1>1. ConnInv => TypeOK
  BY DEF ConnInv, Typed
<1> QED
  BY <1>1, ConnInvariant, PTL

(* do_POST sends to the backend only what it has understood and does not   *)
(* refuse, once, and the client of a refused POST that is answered gets    *)
(* one 403 with its reason and nothing else (request_handler.py:141-172).  *)
THEOREM GateIsKept == Spec => []Gatekeeping
<1>1. ASSUME ConnInv PROVE Gatekeeping
  <2>1. Kept /\ sent \in {<<>>, <<Forwarded>>}
    BY <1>1 DEF ConnInv, Typed, TypeOK
  <2>2. Len(sent) <= 1
    <3>1. CASE sent = <<>>
      BY <3>1
    <3>2. CASE sent = <<Forwarded>>
      BY <3>2
    <3> QED
      BY <2>1, <3>1, <3>2
  <2>3. Refused => request.method = "POST"
    BY DEF Refused, IsPut, IsQuery
  <2>4. ASSUME pc = "closed", Refused
        PROVE  wire = <<StatusLines(<< 403 >>), Body("error")>>
    BY <2>1, <2>3, <2>4 DEF Kept
  <2> QED
    BY <2>1, <2>2, <2>4 DEF Gatekeeping, Kept
<1> QED
  BY <1>1, ConnInvariant, PTL

(* Whatever fails while a reply is under way, requests_total counts the    *)
(* last status line on the wire, and with 502 and 504 the error body comes *)
(* after it (request_handler.py:172-175, 205-242).                         *)
THEOREM LastStatusIsCounted == Spec => []CountedStatusIsTheLast
<1>1. ASSUME ConnInv PROVE CountedStatusIsTheLast
  <2>1. InOrder /\ Matched
    BY <1>1 DEF ConnInv
  <2> QED
    BY <2>1 DEF InOrder, Matched, Begins, CountedStatusIsTheLast
<1> QED
  BY <1>1, ConnInvariant, PTL

(* Only a query that was sent to the backend is recorded, and only a       *)
(* client that stalls can make one run look like two                       *)
(* (request_handler.py:215-230, 253).                                      *)
THEOREM RunsAreRecordedOnce == Spec => []OneRecordPerRun
<1>1. ASSUME ConnInv PROVE OneRecordPerRun
  <2>1. Recorded
    BY <1>1 DEF ConnInv
  <2>2. saved \in {<<>>, <<"run">>, <<"timeout">>} => Len(saved) <= 1
    <3>1. CASE saved = <<>>
      BY <3>1
    <3>2. CASE saved = <<"run">>
      BY <3>2
    <3>3. CASE saved = <<"timeout">>
      BY <3>3
    <3> QED
      BY <3>1, <3>2, <3>3
  <2> QED
    BY <2>1, <2>2 DEF Recorded, OneRecordPerRun
<1> QED
  BY <1>1, ConnInvariant, PTL

(* A connection is closed without a reply only for one of the reasons that *)
(* SilenceIsExplained lists (request_handler.py:116-123, 135-151, 224-225, *)
(* query.py:99-100).                                                       *)
THEOREM NoOtherSilence == Spec => []SilenceIsExplained
<1>1. ConnInv => SilenceIsExplained
  BY DEF ConnInv
<1> QED
  BY <1>1, ConnInvariant, PTL
=============================================================================
