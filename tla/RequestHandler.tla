--------------------------- MODULE RequestHandler ---------------------------
(***************************************************************************)
(* One connection of the proxy: ProxyRequestHandler from the request line  *)
(* to the closed socket.  Every reply carries "Connection: close", so a    *)
(* connection is one request, and requests share nothing but the           *)
(* statistics, which StatsStore models.                                    *)
(*                                                                         *)
(* BaseHTTPRequestHandler collects the status line and the header lines of *)
(* a reply in a buffer that end_headers writes to the socket.  An          *)
(* exception between the two leaves the first status line in the buffer,   *)
(* and the error reply adds its own; one after end_headers starts a second *)
(* reply on the same connection.  The model keeps status lines and bodies, *)
(* in the order in which they reach the socket.                            *)
(*                                                                         *)
(* An operator named Bad... is a slip that this code could have made.      *)
(***************************************************************************)
EXTENDS Integers, Sequences, SequencesExt

VARIABLES
  safeMode, \* the safe_mode flag of the configuration, which never changes
  pc,       \* where the handler is
  request,  \* what the client sent
  client,   \* what the client does with the reply
  redis,    \* "up", "down" (PING fails), "breaks" (a later command fails) or
            \* "silent" (no command is answered)
  reply,    \* what the backend sent
  buffer,   \* status lines collected by send_response
  body,     \* the body to be written next
  wire,     \* what has been written to the client
  sent,     \* the requests sent to the backend, as it gets them
  saved,    \* the completed calls of save_stats: "run" or "timeout"
  status,   \* the status of the last reply that was begun, 0 before
  counted   \* the return_code label counted in requests_total, 0 if none

vars == <<safeMode, pc, request, client, redis, reply, buffer, body, wire, sent, saved,
          status, counted>>

(* path: the target of the request before a "?"; "metrics" and "top" are   *)
(* the proxy's own pages, "other" is any other path.  args: the target     *)
(* goes on with a "?".  sound: the length, the JSON, the start time and    *)
(* the sub-queries are such that the code finds what it reads, and the     *)
(* body arrives in time.  verdict: the result of Protector.check for the   *)
(* query in the body, and guarded whether it asks the guard, after neither *)
(* of the lists has decided.  end: how the end of the range is given,      *)
(* "relative" as in 1h-ago, which OpenTSDB takes and int() does not.       *)
Request == [method : {"GET", "POST"},
            path : {"metrics", "top", "query", "put", "other"}, args : BOOLEAN,
            sound : BOOLEAN, verdict : {"ok", "refused"}, guarded : BOOLEAN,
            end : {"absolute", "relative"}]

(* The handler compares self.path as a whole, a "?" and what follows       *)
(* included.                                                               *)
At(path) == request.path = path /\ ~request.args

IsPut   == request.method = "POST" /\ At("put")
IsQuery == request.method = "POST" /\ At("query")

(* What do_POST answers itself.                                            *)
Refused == IsPut \/ (IsQuery /\ request.verdict = "refused" /\ ~safeMode)

(* The request line that HTTPRequest sends: a POST loses what follows the  *)
(* "?", and a GET keeps it.                                                *)
Forwarded == [method |-> request.method, path |-> request.path,
              args |-> request.args /\ request.method = "GET"]

(* 500 stands for any other status.  json: the unpacked body is a JSON     *)
(* value of the form the code expects.  whole: the body arrives.           *)
Reply == [status : {200, 400, 500},
          encoding : {"identity", "gzip", "deflate", "unknown"},
          json : BOOLEAN, whole : BOOLEAN]

(* decode_content_body and the JSON parser take it.                        *)
Unpacked(r) == r.json /\ r.encoding # "unknown"

NoReply == [status |-> 0, encoding |-> "identity", json |-> FALSE, whole |-> FALSE]

(* raw: the bytes of the backend.  repacked: the response without its      *)
(* summary, packed again.  emptied: a packed empty text.  text: a str,     *)
(* which the socket does not take.  own, error: made by the proxy.         *)
Bodies == {"none", "raw", "repacked", "emptied", "text", "own", "error"}

StatusLines(lines) == [lines |-> lines, body |-> "none"]
Body(kind)         == [lines |-> <<>>, body |-> kind]

Init ==
  /\ safeMode \in BOOLEAN
  /\ pc = "start"
  /\ request \in Request
  /\ request.method = "GET" =>   \* its body is not read
       /\ request.sound /\ request.verdict = "ok" /\ ~request.guarded
       /\ request.end = "absolute"
  /\ client \in {"reads", "stalls", "leaves"}
  /\ redis \in {"up", "down", "breaks", "silent"}
  /\ reply = NoReply
  /\ buffer = <<>> /\ body = "none" /\ wire = <<>>
  /\ sent = <<>> /\ saved = <<>> /\ status = 0 /\ counted = 0

exchange == <<safeMode, request, redis, reply, sent, saved, counted>>

(* An exception leaves do_GET or do_POST: the connection is closed and the *)
(* buffer is lost.                                                         *)
Drop == pc' = "dropped" /\ UNCHANGED <<buffer, body, status>>

(* Bad: an error inside _handle_request returns the backend's status.      *)
BadSendError(code) ==
  /\ pc' = "ownHead"
  /\ buffer' = Append(buffer, code)
  /\ body' = "error"
  /\ status' = IF reply.status # 0 THEN reply.status ELSE code

(* send_error up to its first write.                                       *)
SendError(code) ==
  /\ pc' = "ownHead"
  /\ buffer' = Append(buffer, code)
  /\ body' = "error"
  /\ status' = code

-----------------------------------------------------------------------------
(* do_GET and do_POST up to _handle_request                                *)

(* get_top, load_stats and save_stats begin with PING.                     *)
AsksRedis ==
  \/ pc = "start" /\ request.method = "GET" /\ At("top")
  \/ pc = "start" /\ IsQuery /\ request.guarded
  \/ pc = "process" /\ request.method = "POST" /\ reply.status = 200 /\ Unpacked(reply)
  \/ pc = "timedOut" /\ request.method = "POST"

Stuck == AsksRedis /\ redis = "silent"

(* The Redis client has no socket timeout: the thread waits for ever.      *)
Hang ==
  /\ Stuck
  /\ pc' = "hung"
  /\ UNCHANGED <<buffer, body, status, client, wire, exchange>>

(* The page /metrics, and /top/... unless Redis cannot be read: then       *)
(* get_top returns None or raises.                                         *)
OwnPage ==
  /\ pc = "start" /\ request.method = "GET" /\ ~Stuck
  /\ At("metrics") \/ At("top")
  /\ IF At("top") /\ redis # "up"
     THEN Drop
     ELSE /\ pc' = "ownHead"
          /\ buffer' = <<200>> /\ body' = "own" /\ status' = 200
  /\ UNCHANGED <<client, wire, exchange>>

(* Any other GET, and HEAD and OPTIONS, is forwarded unchecked, as a GET.  *)
PassThrough ==
  /\ pc = "start" /\ request.method = "GET"
  /\ ~At("metrics") /\ ~At("top")
  /\ pc' = "send"
  /\ UNCHANGED <<buffer, body, status, client, wire, exchange>>

(* load_stats raises: it computes the interval as soon as Redis answers.   *)
NoInterval == IsQuery /\ request.guarded /\ request.end = "relative"
              /\ redis \in {"up", "breaks"}

(* Bad: no return after the error reply is begun.                          *)
BadRefuse ==
  /\ pc = "start" /\ request.sound /\ ~NoInterval /\ ~Stuck
  /\ Refused
  /\ pc' = "send"
  /\ buffer' = Append(buffer, 403) /\ body' = "error" /\ status' = 403
  /\ UNCHANGED <<client, wire, exchange>>

(* A put, and a query that Protector.check refuses.                        *)
Refuse ==
  /\ pc = "start" /\ request.sound /\ ~NoInterval /\ ~Stuck
  /\ Refused
  /\ SendError(403)
  /\ UNCHANGED <<client, wire, exchange>>

(* Any other POST, also one to /api/put or /api/query with a "?".          *)
Allow ==
  /\ pc = "start" /\ request.method = "POST" /\ request.sound /\ ~NoInterval /\ ~Stuck
  /\ ~Refused
  /\ pc' = "send"
  /\ UNCHANGED <<buffer, body, status, client, wire, exchange>>

(* What the code looks for is not there, or load_stats raises.  A query    *)
(* that only the rules find unusable has passed by Redis before.           *)
Unusable ==
  /\ pc = "start" /\ request.method = "POST"
  /\ \/ ~request.sound
     \/ NoInterval
     \/ IsQuery /\ request.guarded /\ redis = "breaks"
  /\ Drop
  /\ UNCHANGED <<client, wire, exchange>>

-----------------------------------------------------------------------------
(* _handle_request and _return_response                                    *)

Requested == pc = "send" /\ sent' = Append(sent, Forwarded)

others == <<safeMode, request, redis, saved, counted, client, wire>>

(* HTTPRequest.request: the backend answers ...                            *)
Answered ==
  /\ Requested
  /\ reply' \in Reply
  /\ buffer' = Append(buffer, reply'.status)
  /\ status' = reply'.status
  /\ pc' = "read"
  /\ UNCHANGED body /\ UNCHANGED others

(* ... or is silent until the socket timeout, while it is connected to,    *)
(* sent to or waited for ...                                               *)
Unanswered ==
  /\ Requested
  /\ pc' = "timedOut"
  /\ UNCHANGED <<reply, buffer, body, status>> /\ UNCHANGED others

(* ... or it cannot be reached, or what it sends is no response: raised,   *)
(* because max_retries is 1, or returned as the part that came, which is   *)
(* no response either.                                                     *)
RequestFails ==
  /\ Requested
  /\ SendError(502)
  /\ UNCHANGED reply /\ UNCHANGED others

(* Bad: a body that ends early is not caught.                              *)
BadRead ==
  /\ pc = "read"
  /\ \/ reply.whole /\ pc' = "process" /\ UNCHANGED <<buffer, body, status>>
     \/ ~reply.whole /\ pc' = "timedOut" /\ UNCHANGED <<buffer, body, status>>
     \/ ~reply.whole /\ Drop
  /\ UNCHANGED <<client, wire, exchange>>

Read ==
  /\ pc = "read"
  /\ \/ reply.whole /\ pc' = "process" /\ UNCHANGED <<buffer, body, status>>
     \/ ~reply.whole /\ pc' = "timedOut" /\ UNCHANGED <<buffer, body, status>>
     \/ ~reply.whole /\ SendError(502)
  /\ UNCHANGED <<client, wire, exchange>>

(* Bad: the empty text is not told apart from a packed response.           *)
BadProcessed(r) ==
  CASE request.method = "GET" \/ r.status = 500 -> "raw"
    [] request.method = "POST" /\ r.status # 500 /\ r.json -> "repacked"
    [] OTHER -> "empty"

(* _process_response leaves "" of a body it cannot take; encoding a str    *)
(* raises for deflate and for an encoding it does not know, and is not     *)
(* done at all for identity.  _process_bad_request raises for a body it    *)
(* cannot take.                                                            *)
Processed(r) ==
  CASE request.method = "GET" \/ r.status = 500 -> "raw"
    [] request.method = "POST" /\ r.status # 500 /\ r.encoding = "identity" ->
         IF r.json THEN "text" ELSE IF r.status = 200 THEN "raw" ELSE "raises"
    [] request.method = "POST" /\ r.status # 500 /\ r.encoding = "gzip" ->
         IF r.json THEN "repacked"
         ELSE IF r.status = 200 THEN "emptied" ELSE "raises"
    [] OTHER -> "raises"

(* The statistics of a run are saved before the body is packed again; what *)
(* save_stats raises, as it does for a relative end, and for a POST that   *)
(* was not taken for a query, is caught there.                             *)
Saves == /\ IsQuery /\ request.end = "absolute" /\ redis = "up"
         /\ reply.status = 200 /\ Unpacked(reply)

(* Bad: what goes wrong with the body is taken for a timeout.              *)
BadProcess ==
  /\ pc = "process" /\ ~Stuck
  /\ saved' = IF Saves THEN Append(saved, "run") ELSE saved
  /\ IF Processed(reply) = "raises"
     THEN pc' = "timedOut" /\ UNCHANGED <<buffer, body, status>>
     ELSE /\ pc' = "head" /\ body' = Processed(reply)
          /\ UNCHANGED <<buffer, status>>
  /\ UNCHANGED <<safeMode, client, wire, request, redis, reply, sent, counted>>

Process ==
  /\ pc = "process" /\ ~Stuck
  /\ saved' = IF Saves THEN Append(saved, "run") ELSE saved
  /\ IF Processed(reply) = "raises"
     THEN SendError(502)
     ELSE /\ pc' = "head" /\ body' = Processed(reply)
          /\ UNCHANGED <<buffer, status>>
  /\ UNCHANGED <<safeMode, client, wire, request, redis, reply, sent, counted>>

(* A write succeeds, or takes longer than the socket timeout, or fails for *)
(* good.  What does not succeed may have been written in part.             *)
Written(piece) == client # "gone" /\ wire' = Append(wire, piece) /\ UNCHANGED client

InPart == wire' \in {wire, Append(wire, Body("cut"))}

Stalled == client = "stalls" /\ InPart /\ UNCHANGED client

Failed == client \in {"leaves", "gone"} /\ client' = "gone" /\ InPart

(* end_headers and the write of the body in _return_response.              *)
ReturnHead ==
  /\ pc = "head"
  /\ \/ /\ Written(StatusLines(buffer))
        /\ pc' = "body" /\ buffer' = <<>> /\ UNCHANGED <<body, status>>
     \/ Stalled /\ pc' = "timedOut" /\ UNCHANGED <<buffer, body, status>>
     \/ Failed /\ SendError(502)
  /\ UNCHANGED exchange

ReturnBody ==
  /\ pc = "body"
  /\ \/ body = "text" /\ SendError(502) /\ UNCHANGED <<client, wire>>
     \/ /\ body # "text" /\ Written(Body(body))
        /\ pc' = "count" /\ UNCHANGED <<buffer, body, status>>
     \/ /\ body # "text" /\ Stalled
        /\ pc' = "timedOut" /\ UNCHANGED <<buffer, body, status>>
     \/ body # "text" /\ Failed /\ SendError(502)
  /\ UNCHANGED exchange

(* Bad: a GET that timed out is sent again.                                *)
BadTimedOut ==
  /\ pc = "timedOut"
  /\ IF request.method = "GET"
     THEN pc' = "send" /\ sent' = <<>> /\ UNCHANGED <<buffer, body, status, saved>>
     ELSE SendError(504) /\ UNCHANGED <<sent, saved>>
  /\ UNCHANGED <<safeMode, client, wire, request, redis, reply, counted>>

(* except socket.timeout: a POST is recorded as timed out, which fails for *)
(* one that was not taken for a query or has no interval, or when Redis    *)
(* breaks.  It is also where a client ends up that stalls while the reply  *)
(* is written.                                                             *)
TimedOut ==
  /\ pc = "timedOut" /\ ~Stuck
  /\ IF request.method = "POST" /\ redis # "down"
     THEN IF IsQuery /\ request.end = "absolute" /\ redis = "up"
          THEN SendError(504) /\ saved' = Append(saved, "timeout")
          ELSE Drop /\ UNCHANGED saved
     ELSE SendError(504) /\ UNCHANGED saved
  /\ UNCHANGED <<safeMode, client, wire, request, redis, reply, sent, counted>>

(* The writes of send_error and of the proxy's own pages: nothing catches  *)
(* what goes wrong with them.                                              *)
OwnHead ==
  /\ pc = "ownHead"
  /\ \/ /\ Written(StatusLines(buffer))
        /\ pc' = "ownBody" /\ buffer' = <<>> /\ UNCHANGED <<body, status>>
     \/ (Stalled \/ Failed) /\ Drop
  /\ UNCHANGED exchange

OwnBody ==
  /\ pc = "ownBody"
  /\ \/ /\ Written(Body(body))
        /\ pc' = "count" /\ UNCHANGED <<buffer, body, status>>
     \/ (Stalled \/ Failed) /\ Drop
  /\ UNCHANGED exchange

(* The forwarded POSTs are counted; the connection is closed.              *)
Close ==
  /\ pc = "count"
  /\ pc' = "closed"
  /\ counted' = IF request.method = "POST" /\ sent # <<>> THEN status ELSE 0
  /\ UNCHANGED <<safeMode, request, client, redis, reply, buffer, body, wire,
                 sent, saved, status>>

-----------------------------------------------------------------------------
Next ==
  \/ Hang \/ OwnPage \/ PassThrough \/ Refuse \/ Allow \/ Unusable
  \/ Answered \/ Unanswered \/ RequestFails \/ Read \/ Process \/ ReturnHead \/ ReturnBody \/ TimedOut
  \/ OwnHead \/ OwnBody \/ Close

(* A wait for the backend or the client ends with what was waited for, an  *)
(* error or the socket timeout (a backend that never ends its body, but is *)
(* never silent for long, is left out); a wait for Redis may not end.      *)
Spec == Init /\ [][Next]_vars /\ WF_vars(Next)

-----------------------------------------------------------------------------
(* Properties                                                              *)

Over == pc \in {"closed", "dropped"}

Piece == [lines : Seq({200, 400, 500, 403, 502, 504}), body : Bodies \cup {"cut"}]

TypeOK ==
  /\ pc \in {"start", "send", "read", "process", "head", "body", "timedOut",
             "ownHead", "ownBody", "count", "closed", "dropped", "hung"}
  /\ safeMode \in BOOLEAN
  /\ request \in Request /\ reply \in Reply \cup {NoReply}
  /\ client \in {"reads", "stalls", "leaves", "gone"}
  /\ redis \in {"up", "down", "breaks", "silent"}
  /\ \A i \in DOMAIN wire : wire[i] \in Piece
  /\ body \in Bodies /\ sent \in {<<>>, <<Forwarded>>}

(* What do_POST refuses, or does not understand, does not reach the        *)
(* backend, and nothing does twice; and a refused client that reads its    *)
(* reply gets one 403 with its reason and nothing else                     *)
(* (request_handler.py:141-172).                                           *)
Gatekeeping ==
  /\ Len(sent) <= 1
  /\ sent # <<>> /\ request.method = "POST" => request.sound /\ ~Refused
  /\ pc = "closed" /\ Refused =>
       wire = <<StatusLines(<<403>>), Body("error")>>

(* README.md:20, 24: "no /api/put proxying", and a query is checked        *)
(* "before it even reaches the database": no put that is posted, and no    *)
(* posted query that the rules would refuse, is among what the backend     *)
(* gets, unless in safe mode (request_handler.py:142, 148,                 *)
(* http_request.py:34-36).                                                 *)
DocumentedGate ==
  ~safeMode => \A i \in DOMAIN sent : sent[i].method = "POST" =>
    /\ sent[i].path # "put"
    /\ sent[i].path = "query" => request.verdict = "ok"

(* However many replies were begun, the code counted in requests_total is  *)
(* that of the last status line the client got, and with 502 and 504 the   *)
(* client has got an error body (request_handler.py:172-175, 205-242).     *)
CountedStatusIsTheLast ==
  counted # 0 =>
    /\ Len(wire) >= 2
    /\ Last(wire).body \in IF counted \in {502, 504} THEN {"error"}
                           ELSE {"raw", "repacked", "emptied"}
    /\ LET lines == wire[Len(wire) - 1].lines
       IN  lines # <<>> /\ Last(lines) = counted

(* The statistics get one record for a run, and only for a query that was  *)
(* sent; there are two, the second a timeout that never happened, only     *)
(* when the client is slower in reading than the timeout                   *)
(* (request_handler.py:215-230, 253).                                      *)
OneRecordPerRun ==
  /\ saved # <<>> => sent # <<>> /\ IsQuery
  /\ Len(saved) > 1 => client = "stalls" /\ saved = <<"run", "timeout">>

(* Who is left without any reply, once the connection is closed: a client  *)
(* that does not read, one whose request the code cannot take, and, with   *)
(* Redis at fault, one that wants /top or whose query goes to the guard or *)
(* times out; with a relative end also one whose query goes to the guard   *)
(* or times out, but only while the statistics can be reached, and so any  *)
(* POST that times out and was not taken for a query                       *)
(* (request_handler.py:116-123, 135-151, 224-225, query.py:99-100).        *)
SilenceIsExplained ==
  pc = "dropped" /\ wire = <<>> =>
    \/ client \in {"stalls", "gone"}
    \/ request.method = "POST" /\ ~request.sound
    \/ redis \in {"down", "breaks"} /\ request.method = "GET" /\ At("top")
    \/ redis = "breaks" /\ IsQuery /\ (request.guarded \/ sent # <<>>)
    \/ /\ redis \in {"up", "breaks"} /\ IsQuery /\ request.end = "relative"
       /\ request.guarded \/ sent # <<>>
    \/ /\ request.method = "POST" /\ ~IsQuery
       /\ redis \in {"up", "breaks"} /\ sent # <<>>

(* Every connection comes to its end, whatever the client, the backend and *)
(* Redis do, unless Redis does not answer and /top, a query or the         *)
(* statistics of a forwarded POST need it: no GET that is forwarded and no *)
(* put waits for ever (request_handler.py:116, 161, 225, 253,              *)
(* protector_main.py:48-52).                                               *)
Terminates ==
  <>(Over \/ /\ pc = "hung" /\ redis = "silent"
             /\ IF request.method = "GET" THEN At("top") ELSE ~IsPut)

(* test_post (tests/proxy/test_server.py:213-215): a JSON response to a    *)
(* query, not encoded, is passed on without its summary, with status 200.  *)
TestPost ==
  /\ pc = "closed" /\ client = "reads" /\ IsQuery /\ reply.status = 200 /\ reply.whole
  /\ reply.encoding = "identity" /\ reply.json
  => wire = <<StatusLines(<<200>>), Body("repacked")>>
=============================================================================
