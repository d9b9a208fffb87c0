----------------------------- MODULE TcpSession -----------------------------
(***************************************************************************)
(* TcpSession::Start and the services it dispatches to: one client at a    *)
(* time, whose requests are read, decoded, given to a service and answered *)
(* one by one, and what becomes of the connection, of the services and of  *)
(* the process when a step throws.                                         *)
(*                                                                         *)
(* The bytes on their way to the server are a sequence of units, one for a *)
(* header and one for a body.  A header that announces more than           *)
(* BUFFER_SIZE bytes is refused before its body is read; from then on the  *)
(* server reads units where the client did not put them (inStep is FALSE)  *)
(* and what it makes of them is arbitrary.                                 *)
(***************************************************************************)
EXTENDS Integers, Sequences

CONSTANTS
  Services,        \* the ids of the services in services_
  Supports,        \* the request types each of them overrides
  Headers,         \* the headers a client sends, see HeaderType
  DataLength,      \* the size of what a service reads
  MaxRequests,     \* bound: requests a client sends on a connection
  MaxConnections   \* bound: connections

Types == {"R", "W", "WR", "other"}

(* What the Length of a header stands for: no body, one that does not fit  *)
(* the buffer, and one that fits, whose frame says its size or does not.   *)
Lengths == {"none", "unsized", "sized", "over"}
HeaderType == [type : Types, endpoint : Int, length : Lengths]

Codes == {"Ok", "NoContent", "BadRequest", "ConnectionError", "BufferOverflow", "NotFound"}
Success == {"Ok", "NoContent"}

ASSUME SessionAssumption ==
  /\ Services \subseteq Nat
  /\ Supports \in [Services -> SUBSET (Types \ {"other"})]
  /\ Headers \subseteq HeaderType
  /\ DataLength \in Nat
  /\ MaxRequests \in Nat
  /\ MaxConnections \in Nat

VARIABLES
  pc,           \* where Start is
  conn,         \* the connection: "none", "open", or "closed" by the client
  stream,       \* the units sent and not read
  request,      \* the request in hand: its number and its header
  reply,        \* the code and the endpoint of the Response to send
  notified,     \* the services told of the loss of the last connection
  sent,         \* history: requests sent on this connection
  replies,      \* history: replies sent on it
  performed,    \* history: the requests a service performed, in order
  inStep,       \* history: no body was left unread
  connections   \* bounds the number of connections

clientVars == <<conn, sent, connections>>
serverVars == <<pc, request, reply, notified>>
historyVars == <<replies, performed, inStep>>
vars == <<clientVars, serverVars, stream, historyVars>>

Pcs == {"accept", "header", "body", "decode", "find", "action", "compress", "send",
        "report", "lost", "ended"}

Numbers == 0 .. MaxRequests
NoReply == [code |-> "NotFound", endpoint |-> -1]
NoRequest == [number |-> 0, header |-> [type |-> "other", endpoint |-> -1, length |-> "none"]]

TypeOK ==
  /\ pc \in Pcs
  /\ conn \in {"none", "open", "closed"}
  /\ stream \in Seq([unit : {"header", "body"}, number : Numbers, header : HeaderType])
  /\ request \in [number : Numbers, header : HeaderType]
  /\ reply \in [code : Codes, endpoint : Int]
  /\ notified \subseteq Services
  /\ sent \in Numbers
  /\ replies \in Seq([number : Numbers, code : Codes, endpoint : Int])
  /\ performed \in Seq(Numbers)
  /\ inStep \in BOOLEAN
  /\ connections \in 0 .. MaxConnections

Init ==
  /\ pc = "accept"
  /\ conn = "none"
  /\ stream = <<>>
  /\ request = NoRequest
  /\ reply = NoReply
  /\ notified = Services
  /\ sent = 0
  /\ replies = <<>>
  /\ performed = <<>>
  /\ inStep = TRUE
  /\ connections = 0

----------------------------------------------------------------------------
(* The client.                                                             *)

(* GetConnection accepts it: a new connection, and a new history. *)
Connect ==
  /\ pc = "accept"
  /\ connections < MaxConnections
  /\ connections' = connections + 1
  /\ conn' = "open"
  /\ stream' = <<>>
  /\ sent' = 0
  /\ replies' = <<>>
  /\ performed' = <<>>
  /\ inStep' = TRUE
  /\ pc' = "header"
  /\ notified' = {}
  /\ UNCHANGED <<request, reply>>

Units(h, n) ==
  LET unit(u) == [unit |-> u, number |-> n, header |-> h]
  IN  IF h.length = "none" THEN <<unit("header")>> ELSE <<unit("header"), unit("body")>>

Send(h) ==
  /\ conn = "open"
  /\ sent < MaxRequests
  /\ sent' = sent + 1
  /\ stream' = stream \o Units(h, sent + 1)
  /\ UNCHANGED <<conn, connections, serverVars, historyVars>>

(* It closes its end or resets the connection: what is in flight may be    *)
(* lost.  A link that goes silent without either looks like a client that  *)
(* sends nothing, to the model as to the code.                             *)
Close ==
  /\ conn = "open"
  /\ conn' = "closed"
  /\ \E n \in 0 .. Len(stream) : stream' = SubSeq(stream, 1, n)
  /\ UNCHANGED <<sent, connections, serverVars, historyVars>>

Client == (\E h \in Headers : Send(h)) \/ Close

----------------------------------------------------------------------------
(* The server.                                                             *)

(* The errors a handler turns into a reply, with -1 for the endpoint. *)
Throw(code) == pc' = "report" /\ reply' = [code |-> code, endpoint |-> -1]

(* Any other exception: the socket is closed, and the services are told.   *)
DropQuietly == pc' = "accept" /\ conn' = "none"
DropNever == pc' = "header" /\ conn' = conn
Drop == pc' = "lost" /\ conn' = "none"

(* An error of GetConnection is outside the try block: it leaves Start.    *)
AcceptFails ==
  /\ pc = "accept"
  /\ pc' = "ended"
  /\ UNCHANGED <<clientVars, request, reply, notified, stream, historyVars>>

(* What the server takes the first unit for: the header the client sent,   *)
(* or, out of step, any.                                                   *)
ReadAs(h) ==
  IF inStep THEN h = Head(stream).header ELSE h \in Headers

ReadHeader(h) ==
  /\ pc = "header"
  /\ stream # <<>>
  /\ ReadAs(h)
  /\ request' = [number |-> IF inStep THEN Head(stream).number ELSE 0, header |-> h]
  /\ stream' = Tail(stream)
  /\ IF h.length = "over"
     THEN Throw("BufferOverflow") /\ inStep' = FALSE
     ELSE /\ pc' = IF h.length = "none" THEN "decode" ELSE "body"
          /\ UNCHANGED <<reply, inStep>>
  /\ UNCHANGED <<clientVars, notified, replies, performed>>

ReadBody ==
  /\ pc = "body"
  /\ stream # <<>>
  /\ stream' = Tail(stream)
  /\ pc' = "decode"
  /\ UNCHANGED <<clientVars, request, reply, notified, historyVars>>

(* boost::asio::read throws once the client has gone. *)
ReadFails ==
  /\ pc \in {"header", "body"}
  /\ conn = "closed"
  /\ Drop
  /\ UNCHANGED <<sent, connections, request, reply, notified, stream, historyVars>>

(* Decompress, of the requests that carry data: an empty body is a frame   *)
(* without a size, which is taken for one larger than the buffer.  A frame *)
(* with a size is one that decompresses: the error code of one that does   *)
(* not, which the code takes for the size of the data, is left out.        *)
Decode ==
  /\ pc = "decode"
  /\ IF request.header.type \in {"W", "WR"} /\ request.header.length # "sized"
     THEN Throw("BufferOverflow")
     ELSE pc' = "find" /\ UNCHANGED reply
  /\ UNCHANGED <<clientVars, request, notified, stream, historyVars>>

FindService ==
  /\ pc = "find"
  /\ IF request.header.endpoint \in Services
     THEN pc' = "action" /\ UNCHANGED reply
     ELSE Throw("NotFound")
  /\ UNCHANGED <<clientVars, request, notified, stream, historyVars>>

Supported == request.header.type \in Supports[request.header.endpoint]

(* DoAction of a type the service does not override, or of no type. *)
NoSuchAction ==
  /\ pc = "action"
  /\ ~Supported
  /\ Throw("NotFound")
  /\ UNCHANGED <<clientVars, request, notified, stream, historyVars>>

(* The data is validated before the service is asked to act on it, and     *)
(* before it turns out that it cannot; the service may refuse it as well.  *)
ValidatedLate == performed' = Append(performed, request.number)
Validated == performed' = performed

Refuse(code) ==
  /\ pc = "action"
  /\ request.header.type \in {"W", "WR"}
  /\ Supported \/ code = "ConnectionError"
  /\ Throw(code)
  /\ Validated
  /\ UNCHANGED <<clientVars, request, notified, stream, replies, inStep>>

TypeAsCode == request.header.type
SuccessCode == IF request.header.type = "W" THEN "NoContent" ELSE "Ok"

PerformedTwice == performed \o <<request.number, request.number>>
PerformedNow == Append(performed, request.number)

(* ReadData, WriteData and WriteReadData of a service that succeeds. *)
Perform ==
  /\ pc = "action"
  /\ Supported
  /\ performed' = PerformedNow
  /\ reply' = [code |-> SuccessCode,
               endpoint |-> request.header.endpoint]
  /\ pc' = IF request.header.type = "W" THEN "send" ELSE "compress"
  /\ UNCHANGED <<clientVars, request, notified, stream, replies, inStep>>

(* Any other exception of a service. *)
ServiceFails ==
  /\ pc = "action"
  /\ Supported
  /\ Drop
  /\ UNCHANGED <<sent, connections, request, reply, notified, stream, historyVars>>

(* The data read is compressed into the buffer, and the reply is made anew *)
(* from it: its third argument, the endpoint, is the length of the data.   *)
Compress ==
  /\ pc = "compress"
  /\ pc' = "send"
  /\ reply' = [reply EXCEPT !.endpoint = DataLength]
  /\ UNCHANGED <<clientVars, request, notified, stream, historyVars>>

(* What was read does not fit the buffer. *)
CompressFails ==
  /\ pc = "compress"
  /\ Throw("BufferOverflow")
  /\ UNCHANGED <<clientVars, request, notified, stream, historyVars>>

ReplyNext == Append(replies, [number |-> request.number, code |-> reply.code,
                              endpoint |-> reply.endpoint])

SendResponse ==
  /\ pc = "send"
  /\ replies' = ReplyNext
  /\ pc' = "header"
  /\ UNCHANGED <<clientVars, request, reply, notified, stream, performed, inStep>>

SendFails ==
  /\ pc = "send"
  /\ conn = "closed"
  /\ Drop
  /\ UNCHANGED <<sent, connections, request, reply, notified, stream, historyVars>>

(* SendResponse in the handlers of BufferOverflow and BaseException. *)
ReportNothing == replies
ReportNext == ReplyNext

Report ==
  /\ pc = "report"
  /\ replies' = ReportNext
  /\ pc' = "header"
  /\ UNCHANGED <<clientVars, request, reply, notified, stream, performed, inStep>>

(* It throws out of the handler, of Start and of main's try block. *)
ReportFails ==
  /\ pc = "report"
  /\ conn = "closed"
  /\ pc' = "ended"
  /\ conn' = "none"
  /\ UNCHANGED <<sent, connections, request, reply, notified, stream, historyVars>>

(* The handlers of every other exception: socket.close(), done by the step *)
(* that threw, then ConnectionLost of each service in the order of its id. *)
Notify(s) ==
  /\ pc = "lost"
  /\ s \in Services \ notified
  /\ \A t \in Services \ notified : s <= t
  /\ notified' = notified \cup {s}
  /\ UNCHANGED <<clientVars, pc, request, reply, stream, historyVars>>

NotifiedAll ==
  /\ pc = "lost"
  /\ notified = Services
  /\ pc' = "accept"
  /\ UNCHANGED <<clientVars, request, reply, notified, stream, historyVars>>

Server ==
  \/ \E h \in Headers : ReadHeader(h)
  \/ ReadBody \/ ReadFails \/ Decode \/ FindService
  \/ NoSuchAction \/ (\E c \in {"BadRequest", "ConnectionError"} : Refuse(c)) \/ Perform
  \/ ServiceFails \/ Compress \/ CompressFails \/ SendResponse \/ SendFails
  \/ Report \/ ReportFails \/ (\E s \in Services : Notify(s)) \/ NotifiedAll

Idle == pc \in {"accept", "ended"} /\ UNCHANGED vars

Next == Connect \/ Client \/ Server \/ AcceptFails \/ Idle

(* The main thread runs; a blocking read returns when there is a unit to   *)
(* read or the client has gone.  Nothing makes a client connect or send.   *)
Spec == Init /\ [][Next]_vars /\ WF_vars(Server)

----------------------------------------------------------------------------
(* Properties.                                                             *)

(* Replies come in the order of the requests, one each and none skipped,   *)
(* as long as no request was larger than the buffer: the k-th reply is the *)
(* one of the k-th request, whatever way the request ended.                *)
RepliesInOrder ==
  inStep => \A k \in 1 .. Len(replies) : replies[k].number = k

(* A reply tells the client what happened: success exactly when a service  *)
(* performed the request, except that what was read may be too large to    *)
(* send.                                                                   *)
RepliesTellTheTruth ==
  inStep => \A k \in 1 .. Len(replies) :
    LET wasPerformed == \E i \in 1 .. Len(performed) : performed[i] = replies[k].number
    IN  /\ replies[k].code \in Success => wasPerformed
        /\ wasPerformed => replies[k].code \in Success \cup {"BufferOverflow"}

(* The server waits for a client only when every service knows that the    *)
(* previous one is gone: this is what stops the video.                     *)
ListensOnlyWhenNotified == pc = "accept" => notified = Services /\ conn = "none"

Outcome(code) ==
  IF code \in Success THEN "success"
  ELSE IF code = "BufferOverflow" THEN "tooLarge" ELSE "refused"

(* The request in hand was performed. *)
DoneNow ==
  /\ inStep
  /\ pc \in {"compress", "send", "report"}
  /\ \E i \in 1 .. Len(performed) : performed[i] = request.number

LastAnswer == IF replies = <<>> THEN "none" ELSE Outcome(replies[Len(replies)].code)

EX == INSTANCE Exchange WITH
  asked <- sent,
  answered <- Len(replies),
  acts <- Len(performed),
  done <- DoneNow,
  last <- LastAnswer,
  astray <- ~inStep,
  told <- notified

(* Reading, decoding, dispatching, compressing and answering, with every   *)
(* error a step may end with, are one exchange: a request is performed at  *)
(* most once and only after it was sent, before the one reply it gets, and *)
(* the next client is accepted when all services know that this one left.  *)
ImplementsExchange == EX!Spec

(* What the third parameter of Response says: a reply to a request that    *)
(* succeeded names the endpoint it comes from.                             *)
RepliesNameTheirEndpoint ==
  \A k \in 1 .. Len(replies) :
    replies[k].code \in Success => replies[k].endpoint \in Services

(* A client that closed or reset its connection is noticed, and the server *)
(* listens again or ends.  Nothing is said of a link that breaks silently. *)
ClosedIsNoticed == conn = "closed" ~> pc \in {"accept", "ended"}

(* Every request of a client that stays is answered, unless an earlier one *)
(* was too large or the connection was dropped by a failing service.       *)
Answered ==
  \A n \in 1 .. MaxRequests :
    (conn = "open" /\ sent >= n) ~> (Len(replies) >= n \/ conn # "open" \/ ~inStep)
=============================================================================
