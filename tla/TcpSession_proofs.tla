------------------------- MODULE TcpSession_proofs -------------------------
(***************************************************************************)
(* Theorems about TcpSession, for any services, any requests and any       *)
(* number of them.                                                         *)
(***************************************************************************)
EXTENDS TcpSession, TLAPS

Unit == [unit : {"header", "body"}, number : Numbers, header : HeaderType]

(* The socket is open exactly while a client is served. *)
Serving == Pcs \ {"accept", "lost", "ended"}
ConnInv == pc \in Serving <=> conn # "none"

(* What follows a unit in the stream: its body, or the next header. *)
Complete(u) == u.unit = "header" => u.header.length = "none"
Follows(u, v) ==
  IF Complete(u)
  THEN v.unit = "header" /\ v.number = u.number + 1
  ELSE v.unit = "body" /\ v.number = u.number

Chained(s) == \A i \in 1 .. Len(s) - 1 : Follows(s[i], s[i + 1])

(* The request being handled is the first that has no reply yet. *)
Handling == {"body", "decode", "find", "action", "compress", "send", "report"}
NumberInv == pc \in Handling => request.number = Len(replies) + 1

(* The number of requests whose header has been read. *)
Read == Len(replies) + (IF pc \in Handling THEN 1 ELSE 0)

(* The stream goes on where the server is, without a gap, up to the last   *)
(* request sent; a client that has gone may have left it incomplete.       *)
StreamInv ==
  /\ Chained(stream)
  /\ stream # <<>> =>
       IF pc = "body"
       THEN stream[1].unit = "body" /\ stream[1].number = request.number
       ELSE stream[1].unit = "header" /\ stream[1].number = Read + 1
  /\ conn = "open" =>
       IF stream = <<>> THEN pc # "body" /\ sent = Read
       ELSE Complete(stream[Len(stream)]) /\ stream[Len(stream)].number = sent

(* Whether the request in hand has been performed. *)
Done(n) == \E i \in 1 .. Len(performed) : performed[i] = n
ReplyInv ==
  /\ pc \in {"compress", "send"} => Done(request.number) /\ reply.code \in Success
  /\ pc = "report" => /\ reply.code \notin Success
                      /\ reply.code # "BufferOverflow" => ~Done(request.number)
  /\ \A i \in 1 .. Len(performed) :
       \/ performed[i] <= Len(replies)
       \/ pc \in {"compress", "send", "report"} /\ performed[i] = request.number

(* Services perform the requests in the order in which they were sent.     *)
PerformedOnce ==
  inStep => \A i, j \in 1 .. Len(performed) : i < j => performed[i] < performed[j]

Histories == RepliesInOrder /\ RepliesTellTheTruth /\ PerformedOnce
OrderInv ==
  inStep => Histories /\ (pc \in Serving => NumberInv /\ StreamInv /\ ReplyInv)

SessionInv == TypeOK /\ ConnInv /\ ListensOnlyWhenNotified /\ OrderInv

----------------------------------------------------------------------------
(* Lemmas about the stream.                                                *)

(* What is left after the first unit follows it. *)
LEMMA TailChained ==
  ASSUME NEW s \in Seq(Unit), s # <<>>, Chained(s)
  PROVE  /\ Tail(s) \in Seq(Unit) /\ Head(s) = s[1] /\ s[1] \in Unit
         /\ Chained(Tail(s))
         /\ Tail(s) # <<>> => /\ Follows(s[1], Tail(s)[1])
                             /\ Tail(s)[Len(Tail(s))] = s[Len(s)]
         /\ Tail(s) = <<>> => s[Len(s)] = s[1]
<1>1. /\ Tail(s) \in Seq(Unit) /\ Head(s) = s[1] /\ s[1] \in Unit /\ Len(s) \in Nat \ {0}
      /\ Len(Tail(s)) = Len(s) - 1
      /\ \A i \in 1 .. Len(s) - 1 : Tail(s)[i] = s[i + 1]
  OBVIOUS
<1>2. Chained(Tail(s))
  BY <1>1 DEF Chained
<1>3. Tail(s) # <<>> => Len(Tail(s)) >= 1
  BY <1>1
<1>4. Tail(s) # <<>> => Follows(s[1], Tail(s)[1]) /\ Tail(s)[Len(Tail(s))] = s[Len(s)]
  BY <1>1, <1>3 DEF Chained
<1>5. Tail(s) = <<>> => s[Len(s)] = s[1]
  BY <1>1
<1> QED
  BY <1>1, <1>2, <1>4, <1>5

(* A prefix is of the same chain. *)
LEMMA PrefixChained ==
  ASSUME NEW s \in Seq(Unit), Chained(s), NEW n \in 0 .. Len(s)
  PROVE  /\ SubSeq(s, 1, n) \in Seq(Unit) /\ Chained(SubSeq(s, 1, n))
         /\ SubSeq(s, 1, n) # <<>> => s # <<>> /\ SubSeq(s, 1, n)[1] = s[1]
<1>1. /\ SubSeq(s, 1, n) \in Seq(Unit) /\ Len(SubSeq(s, 1, n)) = n
      /\ \A i \in 1 .. n : SubSeq(s, 1, n)[i] = s[i]
  OBVIOUS
<1>2. Chained(SubSeq(s, 1, n))
  BY <1>1 DEF Chained
<1> QED
  BY <1>1, <1>2

(* What a client sends is a chain of one or two units, which continues a   *)
(* stream that ends with the request before.                               *)
LEMMA UnitsChained ==
  ASSUME NEW s \in Seq(Unit), Chained(s), NEW h \in HeaderType,
         NEW n \in Numbers, n >= 1,
         s # <<>> => Complete(s[Len(s)]) /\ s[Len(s)].number = n - 1
  PROVE  LET t == s \o Units(h, n)
         IN  /\ t \in Seq(Unit) /\ t # <<>> /\ Chained(t)
             /\ Complete(t[Len(t)]) /\ t[Len(t)].number = n
             /\ s # <<>> => t[1] = s[1]
             /\ s = <<>> => t[1].unit = "header" /\ t[1].number = n
<1> DEFINE header == [unit |-> "header", number |-> n, header |-> h]
           body == [unit |-> "body", number |-> n, header |-> h]
           t == s \o Units(h, n)
<1>1. header \in Unit /\ body \in Unit
  BY DEF Unit
<1>2. Len(s) \in Nat /\ (s # <<>> => Len(s) >= 1)
  OBVIOUS
<1>3. CASE h.length = "none"
  <2>1. Units(h, n) = <<header>>
    BY <1>3 DEF Units
  <2>2. /\ t \in Seq(Unit) /\ Len(t) = Len(s) + 1 /\ t[Len(s) + 1] = header
        /\ \A i \in 1 .. Len(s) : t[i] = s[i]
    BY <1>1, <2>1
  <2> HIDE DEF t
  <2>3. Chained(t)
    <3> SUFFICES ASSUME NEW i \in 1 .. Len(s) PROVE Follows(t[i], t[i + 1])
      BY <2>2 DEF Chained
    <3>1. CASE i < Len(s)
      BY <1>2, <2>2, <3>1 DEF Chained
    <3>2. CASE i = Len(s)
      <4>1. t[i] = s[Len(s)] /\ t[i + 1] = header
        BY <2>2, <3>2
      <4>2. s # <<>>
        BY <3>2
      <4> QED
        BY <4>1, <4>2 DEF Follows, Numbers
    <3> QED
      BY <1>2, <3>1, <3>2
  <2> QED
    BY <1>2, <1>3, <2>2, <2>3 DEF Complete, t
<1>4. CASE h.length # "none"
  <2>1. Units(h, n) = <<header, body>>
    BY <1>4 DEF Units
  <2>2. /\ t \in Seq(Unit) /\ Len(t) = Len(s) + 2
        /\ t[Len(s) + 1] = header /\ t[Len(s) + 2] = body
        /\ \A i \in 1 .. Len(s) : t[i] = s[i]
    BY <1>1, <2>1
  <2> HIDE DEF t
  <2>3. Chained(t)
    <3> SUFFICES ASSUME NEW i \in 1 .. Len(s) + 1 PROVE Follows(t[i], t[i + 1])
      BY <2>2 DEF Chained
    <3>1. CASE i < Len(s)
      BY <1>2, <2>2, <3>1 DEF Chained
    <3>2. CASE i = Len(s)
      <4>1. t[i] = s[Len(s)] /\ t[i + 1] = header
        BY <2>2, <3>2
      <4>2. s # <<>>
        BY <3>2
      <4> QED
        BY <4>1, <4>2 DEF Follows, Numbers
    <3>3. CASE i = Len(s) + 1
      BY <1>4, <2>2, <3>3 DEF Follows, Complete
    <3> QED
      BY <1>2, <3>1, <3>2, <3>3
  <2> QED
    BY <1>2, <2>2, <2>3 DEF Complete, t
<1> QED
  BY <1>3, <1>4

----------------------------------------------------------------------------
(* The invariant: nothing is under way before the first client comes. *)
LEMMA InitInv == Init => SessionInv
<1> SUFFICES ASSUME Init PROVE SessionInv
  OBVIOUS
<1>1. TypeOK
  BY SessionAssumption DEF Init, TypeOK, Pcs, NoReply, NoRequest, Numbers, HeaderType, Types,
                           Lengths, Codes
<1>2. ConnInv /\ ListensOnlyWhenNotified
  BY DEF Init, ConnInv, Serving, ListensOnlyWhenNotified
<1>3. OrderInv
  BY DEF Init, OrderInv, Histories, RepliesInOrder, RepliesTellTheTruth, PerformedOnce, Serving
<1> QED
  BY <1>1, <1>2, <1>3 DEF SessionInv

(* Every step keeps the types: the numbers of requests stay within the     *)
(* bound because each is one that was sent.                                *)
LEMMA TypeKept == ASSUME TypeOK, [Next]_vars PROVE TypeOK'
<1> USE SessionAssumption DEF TypeOK, clientVars, serverVars, historyVars
<1>1. CASE Connect
  BY <1>1 DEF Connect, Pcs, Numbers
<1>2. ASSUME NEW h \in Headers, Send(h) PROVE TypeOK'
  <2>1. sent + 1 \in Numbers
    BY <1>2 DEF Send, Numbers
  <2>2. Units(h, sent + 1) \in Seq(Unit)
    <3> DEFINE header == [unit |-> "header", number |-> sent + 1, header |-> h]
               body == [unit |-> "body", number |-> sent + 1, header |-> h]
    <3>1. header \in Unit /\ body \in Unit
      BY <2>1 DEF Unit
    <3>2. Units(h, sent + 1) \in {<<header>>, <<header, body>>}
      BY DEF Units
    <3> HIDE DEF header, body
    <3>3. <<header>> \in Seq(Unit) /\ <<header, body>> \in Seq(Unit)
      BY ONLY <3>1
    <3> QED
      BY ONLY <3>2, <3>3
  <2>3. stream \in Seq(Unit)
    BY DEF Unit
  <2>4. stream' \in Seq(Unit)
    BY <1>2, <2>2, <2>3 DEF Send
  <2> QED
    BY <1>2, <2>1, <2>4 DEF Send, Unit
<1>3. CASE Close
  <2>1. stream \in Seq(Unit)
    BY DEF Unit
  <2>2. PICK n \in 0 .. Len(stream) : stream' = SubSeq(stream, 1, n)
    BY <1>3 DEF Close
  <2>3. stream' \in Seq(Unit)
    BY ONLY <2>1, <2>2
  <2> QED
    BY <1>3, <2>3 DEF Close, Unit
<1>4. CASE AcceptFails
  BY <1>4 DEF AcceptFails, Pcs
<1>5. ASSUME NEW h \in Headers, ReadHeader(h) PROVE TypeOK'
  <2>1. stream \in Seq(Unit) /\ stream # <<>> /\ stream' = Tail(stream)
    BY <1>5 DEF ReadHeader, Unit
  <2>2. stream' \in Seq(Unit) /\ Head(stream) \in Unit
    BY ONLY <2>1
  <2>3. request' \in [number : Numbers, header : HeaderType]
    BY <1>5, <2>2 DEF ReadHeader, Unit, Numbers
  <2>4. pc' \in Pcs /\ inStep' \in BOOLEAN
    BY <1>5 DEF ReadHeader, Throw, Pcs
  <2>5. reply' = reply \/ reply' = [code |-> "BufferOverflow", endpoint |-> -1]
    BY <1>5 DEF ReadHeader, Throw
  <2>6. reply' \in [code : Codes, endpoint : Int]
    BY <2>5 DEF Codes
  <2> QED
    BY <1>5, <2>2, <2>3, <2>4, <2>6 DEF ReadHeader, Unit
<1>6. CASE ReadBody
  <2>1. stream' \in Seq(Unit)
    BY <1>6 DEF ReadBody, Unit
  <2> QED
    BY <1>6, <2>1 DEF ReadBody, Unit, Pcs
<1>7. CASE ReadFails \/ ServiceFails \/ SendFails
  BY <1>7 DEF ReadFails, ServiceFails, SendFails, Drop, Pcs
<1>8. CASE Decode \/ FindService \/ NoSuchAction \/ CompressFails
  <2>1. /\ reply' \in {reply} \cup [code : Codes, endpoint : {-1}] /\ pc' \in Pcs
        /\ UNCHANGED <<clientVars, request, notified, stream, historyVars>>
    BY <1>8 DEF Decode, FindService, NoSuchAction, CompressFails, Throw, Pcs, Codes
  <2>2. reply' \in [code : Codes, endpoint : Int]
    BY <2>1
  <2> QED
    BY <2>1, <2>2
<1>9. ASSUME NEW c \in {"BadRequest", "ConnectionError"}, Refuse(c) PROVE TypeOK'
  <2>1. pc' \in Pcs /\ reply' \in [code : Codes, endpoint : Int]
    BY <1>9 DEF Refuse, Throw, Pcs, Codes
  <2> QED
    BY <1>9, <2>1 DEF Refuse, Validated
<1>10. CASE Perform
  <2>1. performed' \in Seq(Numbers)
    BY <1>10 DEF Perform, PerformedNow
  <2>2. request.header.endpoint \in Int
    BY DEF HeaderType
  <2>3. reply' \in [code : Codes, endpoint : Int] /\ pc' \in Pcs
    BY <1>10, <2>2 DEF Perform, SuccessCode, Codes, Pcs
  <2> QED
    BY <1>10, <2>1, <2>3 DEF Perform
<1>11. CASE Compress
  <2>1. reply' \in [code : Codes, endpoint : Int]
    <3>1. reply' = [reply EXCEPT !.endpoint = DataLength] /\ DataLength \in Int
      BY <1>11 DEF Compress
    <3>2. reply \in [code : Codes, endpoint : Int]
      OBVIOUS
    <3> QED
      BY ONLY <3>1, <3>2
  <2> QED
    BY <1>11, <2>1 DEF Compress, Pcs
<1>12. CASE SendResponse \/ Report
  <2> DEFINE next == [number |-> request.number, code |-> reply.code,
                      endpoint |-> reply.endpoint]
  <2>1. next \in [number : Numbers, code : Codes, endpoint : Int]
    OBVIOUS
  <2> HIDE DEF next
  <2>2. replies' = Append(replies, next)
    BY <1>12 DEF SendResponse, Report, ReportNext, ReplyNext, next
  <2>3. replies' \in Seq([number : Numbers, code : Codes, endpoint : Int])
    BY <2>1, <2>2
  <2> QED
    BY <1>12, <2>3 DEF SendResponse, Report, Pcs
<1>13. CASE ReportFails
  BY <1>13 DEF ReportFails, Pcs
<1>14. ASSUME NEW s \in Services, Notify(s) PROVE TypeOK'
  BY <1>14 DEF Notify
<1>15. CASE NotifiedAll
  BY <1>15 DEF NotifiedAll, Pcs
<1>16. CASE UNCHANGED vars
  BY <1>16 DEF vars
<1> QED
  BY <1>1, <1>2, <1>3, <1>4, <1>5, <1>6, <1>7, <1>8, <1>9, <1>10, <1>11, <1>12, <1>13, <1>14,
     <1>15, <1>16 DEF Next, Client, Server, Idle

(* The socket is closed on every way out of the service of a client, and   *)
(* the server listens again only when all were told.                       *)
LEMMA ConnKept ==
  ASSUME TypeOK, ConnInv, ListensOnlyWhenNotified, [Next]_vars
  PROVE  ConnInv' /\ ListensOnlyWhenNotified'
BY DEF TypeOK, ConnInv, ListensOnlyWhenNotified, Next, Client, Server, Idle, vars, clientVars,
       serverVars, historyVars, Serving, Pcs, Connect, Send, Close, AcceptFails, ReadHeader,
       ReadBody, ReadFails, ServiceFails, SendFails, Drop, Decode, FindService, NoSuchAction,
       CompressFails, Throw, Refuse, Perform, Compress, SendResponse, Report, ReportFails,
       Notify, NotifiedAll

(* The requests performed are numbers. *)
LEMMA PerformedType ==
  TypeOK => Len(performed) \in Nat /\ \A i \in 1 .. Len(performed) : performed[i] \in Nat
<1> SUFFICES ASSUME TypeOK
             PROVE  Len(performed) \in Nat /\ \A i \in 1 .. Len(performed) : performed[i] \in Nat
  OBVIOUS
<1>1. performed \in Seq(Numbers)
  BY DEF TypeOK
<1>2. Numbers \subseteq Nat
  BY DEF Numbers
<1>3. Len(performed) \in Nat /\ \A i \in 1 .. Len(performed) : performed[i] \in Numbers
  BY ONLY <1>1
<1> QED
  BY ONLY <1>2, <1>3

(* A step that reads nothing, sends nothing and performs nothing keeps the *)
(* histories; the request in hand stays the one it was.                    *)
LEMMA HandlingKept ==
  ASSUME TypeOK, inStep, Histories, NumberInv, StreamInv, ReplyInv,
         pc \in Handling \ {"body"}, pc' \in Handling \ {"body"},
         UNCHANGED <<clientVars, request, stream, historyVars>>,
         pc' \in {"compress", "send"} => pc \in {"compress", "send"} /\ reply'.code = reply.code,
         pc' = "report" => /\ reply'.code \in Codes \ Success
                           /\ pc \in {"compress", "send"} => reply'.code = "BufferOverflow",
         pc \in {"compress", "send"} => pc' \in {"compress", "send", "report"},
         pc # "report"
  PROVE  Histories' /\ NumberInv' /\ StreamInv' /\ ReplyInv'
<1> USE DEF clientVars, historyVars
<1>1. Histories'
  BY DEF Histories, RepliesInOrder, RepliesTellTheTruth, PerformedOnce
<1>2. NumberInv' /\ StreamInv'
  BY DEF NumberInv, StreamInv, Chained, Follows, Complete, Read
<1>3. Len(replies) \in Nat /\ \A i \in 1 .. Len(performed) : performed[i] \in Nat
  BY PerformedType DEF TypeOK
<1>4. pc \notin {"compress", "send"} => ~Done(request.number)
  BY <1>3 DEF ReplyInv, NumberInv, Done
<1>5. ReplyInv'
  <2>1. pc' \in {"compress", "send"} => Done(request.number) /\ reply'.code \in Success
    BY DEF ReplyInv
  <2>2. pc' = "report" => /\ reply'.code \notin Success
                          /\ reply'.code # "BufferOverflow" => ~Done(request.number)
    BY <1>4
  <2>3. \A i \in 1 .. Len(performed) :
          \/ performed[i] <= Len(replies)
          \/ pc' \in {"compress", "send", "report"} /\ performed[i] = request.number
    BY DEF ReplyInv
  <2> QED
    BY <2>1, <2>2, <2>3 DEF ReplyInv, Done
<1> QED
  BY <1>1, <1>2, <1>5

(* Reading goes on where the stream does. *)
LEMMA ReadHeaderKept ==
  ASSUME SessionInv, inStep', NEW h \in Headers, ReadHeader(h)
  PROVE  Histories' /\ NumberInv' /\ StreamInv' /\ ReplyInv'
<1>1. /\ inStep /\ pc = "header" /\ stream # <<>> /\ stream' = Tail(stream)
      /\ h = Head(stream).header /\ h.length # "over"
      /\ request'.number = Head(stream).number
      /\ pc' = IF h.length = "none" THEN "decode" ELSE "body"
      /\ UNCHANGED <<conn, sent, replies, performed>>
  BY DEF SessionInv, TypeOK, ReadHeader, ReadAs, clientVars
<1>2. /\ Histories /\ StreamInv /\ ReplyInv /\ stream \in Seq(Unit)
      /\ Len(replies) \in Nat /\ Read = Len(replies)
  BY <1>1 DEF SessionInv, OrderInv, TypeOK, Unit, Read, Handling, Serving, Pcs
<1>3. /\ Head(stream) = stream[1]
      /\ Chained(stream')
      /\ stream' # <<>> => /\ Follows(stream[1], stream'[1])
                          /\ stream'[Len(stream')] = stream[Len(stream)]
      /\ stream' = <<>> => stream[Len(stream)] = stream[1]
  BY <1>1, <1>2, TailChained DEF StreamInv
<1>4. stream[1].unit = "header" /\ stream[1].number = Len(replies) + 1
  BY <1>1, <1>2 DEF StreamInv
<1>5. NumberInv' /\ Read' = Len(replies) + 1
  BY <1>1, <1>3, <1>4 DEF NumberInv, Read, Handling
<1>6. StreamInv'
  <2>1. Chained(stream)'
    BY <1>3 DEF Chained, Follows, Complete
  <2>2. stream' # <<>> =>
          IF pc' = "body"
          THEN stream'[1].unit = "body" /\ stream'[1].number = request'.number
          ELSE stream'[1].unit = "header" /\ stream'[1].number = Read' + 1
    BY <1>1, <1>3, <1>4, <1>5 DEF Follows, Complete
  <2>3. conn = "open" => Complete(stream[Len(stream)]) /\ stream[Len(stream)].number = sent
    BY <1>1, <1>2 DEF StreamInv
  <2>4. conn' = "open" =>
          IF stream' = <<>> THEN pc' # "body" /\ sent' = Read'
          ELSE Complete(stream'[Len(stream')]) /\ stream'[Len(stream')].number = sent'
    BY <1>1, <1>3, <1>4, <1>5, <2>3 DEF Complete
  <2> QED
    BY <2>1, <2>2, <2>4 DEF StreamInv, Complete
<1>7. Histories' /\ ReplyInv'
  BY <1>1, <1>2 DEF Histories, RepliesInOrder, RepliesTellTheTruth, PerformedOnce, ReplyInv
<1> QED
  BY <1>5, <1>6, <1>7

(* The body of a request is the next unit after its header. *)
LEMMA ReadBodyKept ==
  ASSUME SessionInv, inStep, ReadBody
  PROVE  Histories' /\ NumberInv' /\ StreamInv' /\ ReplyInv'
<1>1. /\ pc = "body" /\ stream # <<>> /\ stream' = Tail(stream) /\ pc' = "decode"
      /\ UNCHANGED <<conn, sent, request, reply, replies, performed>>
  BY DEF ReadBody, clientVars, historyVars
<1>2. /\ Histories /\ NumberInv /\ StreamInv /\ ReplyInv /\ stream \in Seq(Unit)
      /\ Len(replies) \in Nat /\ Read = Len(replies) + 1
  BY <1>1 DEF SessionInv, OrderInv, TypeOK, Unit, Read, Handling, Serving, Pcs
<1>3. /\ Chained(stream')
      /\ stream' # <<>> => /\ Follows(stream[1], stream'[1])
                          /\ stream'[Len(stream')] = stream[Len(stream)]
      /\ stream' = <<>> => stream[Len(stream)] = stream[1]
  BY <1>1, <1>2, TailChained DEF StreamInv
<1>4. stream[1].unit = "body" /\ stream[1].number = Len(replies) + 1
  BY <1>1, <1>2 DEF StreamInv, NumberInv, Handling
<1>5. NumberInv' /\ Read' = Len(replies) + 1
  BY <1>1, <1>2 DEF NumberInv, Read, Handling
<1>6. StreamInv'
  <2>1. Chained(stream)'
    BY <1>3 DEF Chained, Follows, Complete
  <2>2. stream' # <<>> => stream'[1].unit = "header" /\ stream'[1].number = Read' + 1
    BY <1>3, <1>4, <1>5 DEF Follows, Complete
  <2>3. conn = "open" => Complete(stream[Len(stream)]) /\ stream[Len(stream)].number = sent
    BY <1>1, <1>2 DEF StreamInv
  <2>4. conn' = "open" =>
          IF stream' = <<>> THEN sent' = Read'
          ELSE Complete(stream'[Len(stream')]) /\ stream'[Len(stream')].number = sent'
    BY <1>1, <1>3, <1>4, <1>5, <2>3 DEF Complete
  <2> QED
    BY <1>1, <2>1, <2>2, <2>4 DEF StreamInv, Complete
<1>7. Histories' /\ ReplyInv'
  BY <1>1, <1>2 DEF Histories, RepliesInOrder, RepliesTellTheTruth, PerformedOnce, ReplyInv
<1> QED
  BY <1>5, <1>6, <1>7

(* The client adds whole requests at the end, or cuts the stream off. *)
LEMMA ClientKept ==
  ASSUME SessionInv, inStep, Client
  PROVE  Histories' /\ NumberInv' /\ StreamInv' /\ ReplyInv'
<1>1. /\ conn = "open"
      /\ UNCHANGED <<pc, request, reply, replies, performed>>
  BY DEF Client, Send, Close, serverVars, historyVars
<1>2. /\ Histories /\ NumberInv /\ StreamInv /\ ReplyInv /\ stream \in Seq(Unit)
      /\ Len(replies) \in Nat
  BY <1>1 DEF SessionInv, OrderInv, ConnInv, TypeOK, Unit
<1>3. Histories' /\ NumberInv' /\ ReplyInv' /\ Read' = Read
  BY <1>1, <1>2
  DEF Histories, RepliesInOrder, RepliesTellTheTruth, PerformedOnce, NumberInv, ReplyInv, Done,
      Read
<1>4. ASSUME NEW h \in Headers, Send(h) PROVE StreamInv'
  <2>1. /\ stream' = stream \o Units(h, sent + 1) /\ sent' = sent + 1 /\ conn' = conn
        /\ sent \in Nat /\ sent + 1 \in Numbers /\ h \in HeaderType
    BY <1>4, SessionAssumption DEF Send, SessionInv, TypeOK, Numbers
  <2>2. stream # <<>> => Complete(stream[Len(stream)]) /\ stream[Len(stream)].number = sent
    BY <1>1, <1>2 DEF StreamInv
  <2>3. /\ stream' # <<>> /\ Chained(stream')
        /\ Complete(stream'[Len(stream')]) /\ stream'[Len(stream')].number = sent + 1
        /\ stream # <<>> => stream'[1] = stream[1]
        /\ stream = <<>> => stream'[1].unit = "header" /\ stream'[1].number = sent + 1
    BY <1>2, <2>1, <2>2, UnitsChained DEF StreamInv
  <2>4. IF pc = "body"
        THEN stream'[1].unit = "body" /\ stream'[1].number = request.number
        ELSE stream'[1].unit = "header" /\ stream'[1].number = Read + 1
    BY <1>1, <1>2, <2>3 DEF StreamInv
  <2> QED
    BY <1>1, <1>3, <2>1, <2>3, <2>4 DEF StreamInv, Chained, Follows, Complete
<1>5. CASE Close
  <2>1. PICK n \in 0 .. Len(stream) : stream' = SubSeq(stream, 1, n)
    BY <1>5 DEF Close
  <2>2. Chained(stream') /\ (stream' # <<>> => stream # <<>> /\ stream'[1] = stream[1])
    BY <1>2, <2>1, PrefixChained DEF StreamInv
  <2>3. conn' # "open"
    BY <1>5 DEF Close
  <2> QED
    BY <1>1, <1>2, <1>3, <2>2, <2>3 DEF StreamInv, Chained, Follows, Complete
<1> QED
  BY <1>3, <1>4, <1>5 DEF Client

(* The request in hand is performed after all before it. *)
LEMMA PerformKept ==
  ASSUME SessionInv, inStep, Perform
  PROVE  Histories' /\ NumberInv' /\ StreamInv' /\ ReplyInv'
<1>1. /\ pc = "action" /\ pc' \in {"send", "compress"}
      /\ performed' = Append(performed, request.number)
      /\ reply'.code \in Success
      /\ UNCHANGED <<conn, sent, request, stream, replies, inStep>>
  BY DEF Perform, PerformedNow, SuccessCode, Success, clientVars
<1>2. /\ Histories /\ NumberInv /\ StreamInv /\ ReplyInv
      /\ Len(replies) \in Nat /\ request.number = Len(replies) + 1
      /\ performed \in Seq(Numbers)
  BY <1>1 DEF SessionInv, OrderInv, TypeOK, Serving, Pcs, NumberInv, Handling
<1>3. /\ Len(performed) \in Nat /\ \A i \in 1 .. Len(performed) : performed[i] \in Nat
      /\ \A i \in 1 .. Len(performed) : performed[i] <= Len(replies)
  BY <1>1, <1>2, PerformedType DEF SessionInv, ReplyInv
<1>4. /\ Len(performed') = Len(performed) + 1
      /\ performed'[Len(performed) + 1] = request.number
      /\ \A i \in 1 .. Len(performed) : performed'[i] = performed[i]
  BY ONLY <1>1, <1>2
<1>5. NumberInv' /\ StreamInv'
  BY <1>1, <1>2 DEF NumberInv, StreamInv, Chained, Follows, Complete, Read, Handling
<1>6. PerformedOnce'
  <2> SUFFICES ASSUME NEW i \in 1 .. Len(performed) + 1, NEW j \in 1 .. Len(performed) + 1, i < j
               PROVE  performed'[i] < performed'[j]
    BY <1>4 DEF PerformedOnce
  <2>1. i \in 1 .. Len(performed)
    BY <1>3
  <2>2. CASE j = Len(performed) + 1
    BY <1>2, <1>3, <1>4, <2>1, <2>2
  <2>3. CASE j \in 1 .. Len(performed)
    BY <1>1, <1>2, <1>4, <2>1, <2>3 DEF Histories, PerformedOnce, SessionInv
  <2> QED
    BY <1>3, <2>2, <2>3
<1>7. RepliesInOrder'
  BY <1>1, <1>2 DEF Histories, RepliesInOrder
<1>8. RepliesTellTheTruth'
  <2> DEFINE was(k) == \E i \in 1 .. Len(performed) : performed[i] = replies[k].number
             is(k) == \E i \in 1 .. Len(performed) + 1 : performed'[i] = replies[k].number
             truth(k, p) == /\ replies[k].code \in Success => p
                            /\ p => replies[k].code \in Success \cup {"BufferOverflow"}
  <2>1. \A k \in 1 .. Len(replies) : replies[k].number = k /\ replies[k].number # request.number
    BY <1>1, <1>2 DEF Histories, RepliesInOrder
  <2>2. \A k \in 1 .. Len(replies) : is(k) <=> was(k)
    <3> SUFFICES ASSUME NEW k \in 1 .. Len(replies) PROVE is(k) <=> was(k)
      OBVIOUS
    <3> DEFINE n == replies[k].number
    <3>1. n # request.number
      BY <2>1
    <3> HIDE DEF n
    <3>2. (\E i \in 1 .. Len(performed) + 1 : performed'[i] = n)
            <=> \E i \in 1 .. Len(performed) : performed[i] = n
      BY ONLY <1>3, <1>4, <3>1
    <3> QED
      BY ONLY <3>2 DEF n
  <2>3. \A k \in 1 .. Len(replies) : truth(k, was(k))
    BY <1>1, <1>2 DEF Histories, RepliesTellTheTruth
  <2> HIDE DEF was, is
  <2>4. \A k \in 1 .. Len(replies) : truth(k, is(k))
    BY <2>2, <2>3
  <2> QED
    BY <1>1, <1>4, <2>4 DEF RepliesTellTheTruth, is
<1>9. ReplyInv'
  <2>1. Done(request.number)'
    BY <1>1, <1>3, <1>4 DEF Done
  <2> QED
    BY <1>1, <1>3, <1>4, <2>1 DEF ReplyInv
<1> QED
  BY <1>5, <1>6, <1>7, <1>8, <1>9 DEF Histories

(* The reply is the one of the request in hand, whichever way it ended. *)
LEMMA AnswerKept ==
  ASSUME SessionInv, inStep, SendResponse \/ Report
  PROVE  Histories' /\ NumberInv' /\ StreamInv' /\ ReplyInv'
<1> DEFINE next == [number |-> request.number, code |-> reply.code, endpoint |-> reply.endpoint]
           n == Len(replies) + 1
<1>1. /\ pc \in {"send", "report"} /\ pc' = "header" /\ replies' = Append(replies, next)
      /\ UNCHANGED <<conn, sent, request, reply, stream, performed, inStep>>
  BY DEF SendResponse, Report, ReportNext, ReplyNext, clientVars
<1>2. /\ Histories /\ NumberInv /\ StreamInv /\ ReplyInv
      /\ Len(replies) \in Nat /\ request.number = n
      /\ replies \in Seq([number : Numbers, code : Codes, endpoint : Int])
  BY <1>1 DEF SessionInv, OrderInv, TypeOK, Serving, Pcs, NumberInv, Handling
<1>3. next.number = n /\ next.code = reply.code
  BY <1>2
<1> HIDE DEF next
<1>4. /\ Len(replies') = n /\ replies'[n] = next
      /\ \A k \in 1 .. Len(replies) : replies'[k] = replies[k]
  BY ONLY <1>1, <1>2
<1>5. RepliesInOrder'
  BY <1>1, <1>2, <1>3, <1>4 DEF Histories, RepliesInOrder
<1>6. RepliesTellTheTruth'
  <2> DEFINE truth(k, r) == LET wasPerformed == \E i \in 1 .. Len(performed) : performed[i] = r.number
                            IN  /\ r.code \in Success => wasPerformed
                                /\ wasPerformed => r.code \in Success \cup {"BufferOverflow"}
  <2>1. \A k \in 1 .. Len(replies) : truth(k, replies[k])
    BY <1>1, <1>2 DEF Histories, RepliesTellTheTruth
  <2>2. truth(n, next)
    BY <1>1, <1>2, <1>3 DEF ReplyInv, Done
  <2> HIDE DEF truth
  <2>3. \A k \in 1 .. n : truth(k, replies'[k])
    BY <1>2, <1>4, <2>1, <2>2
  <2> QED
    BY <1>1, <1>4, <2>3 DEF RepliesTellTheTruth, truth
<1>7. PerformedOnce'
  BY <1>1, <1>2 DEF Histories, PerformedOnce
<1>8. NumberInv' /\ StreamInv'
  <2>1. Read' = Read
    BY <1>1, <1>2, <1>4 DEF Read, Handling
  <2> QED
    BY <1>1, <1>2, <2>1 DEF NumberInv, StreamInv, Chained, Follows, Complete, Handling
<1>9. ReplyInv'
  <2>1. Len(performed) \in Nat /\ \A i \in 1 .. Len(performed) : performed[i] \in Nat
    BY PerformedType DEF SessionInv
  <2>2. \A i \in 1 .. Len(performed) : performed[i] <= n
    BY <1>2, <2>1 DEF ReplyInv
  <2> QED
    BY <1>1, <1>4, <2>2 DEF ReplyInv
<1> QED
  BY <1>5, <1>6, <1>7, <1>8, <1>9 DEF Histories

(* Once the session of a client is over its histories stay as they are. *)
LEMMA IdleKept ==
  ASSUME Histories, UNCHANGED historyVars
  PROVE  Histories'
BY DEF historyVars, Histories, RepliesInOrder, RepliesTellTheTruth, PerformedOnce

(* No step undoes the order of what was performed. *)
LEMMA OrderKept == ASSUME SessionInv, [Next]_vars PROVE OrderInv'
<1> DEFINE Kept == Histories' /\ NumberInv' /\ StreamInv' /\ ReplyInv'
<1>1. CASE Connect
  BY <1>1 DEF Connect, OrderInv, Histories, RepliesInOrder, RepliesTellTheTruth, PerformedOnce,
              NumberInv, StreamInv, ReplyInv, Chained, Read, Handling
<1>2. CASE Client
  <2>1. inStep' = inStep
    BY <1>2 DEF Client, Send, Close, historyVars
  <2> QED
    BY <1>2, <2>1, ClientKept DEF OrderInv
<1>3. ASSUME NEW h \in Headers, ReadHeader(h) PROVE OrderInv'
  BY <1>3, ReadHeaderKept DEF OrderInv
<1>4. CASE ReadBody
  <2>1. inStep' = inStep
    BY <1>4 DEF ReadBody, historyVars
  <2> QED
    BY <1>4, <2>1, ReadBodyKept DEF OrderInv
<1>5. CASE \/ AcceptFails \/ ReadFails \/ ServiceFails \/ SendFails \/ ReportFails
           \/ (\E s \in Services : Notify(s)) \/ NotifiedAll
  <2>1. UNCHANGED historyVars /\ pc' \notin Serving
    BY <1>5 DEF AcceptFails, ReadFails, ServiceFails, SendFails, ReportFails, Drop, Notify,
                NotifiedAll, Serving
  <2>2. inStep' = inStep
    BY <2>1 DEF historyVars
  <2> QED
    BY <2>1, <2>2, IdleKept DEF OrderInv, SessionInv
<1>6. CASE \/ Decode \/ FindService \/ NoSuchAction \/ Compress \/ CompressFails
           \/ \E c \in {"BadRequest", "ConnectionError"} : Refuse(c)
  <2>1. /\ pc \in Handling \ {"body", "report"} /\ pc' \in Handling \ {"body"}
        /\ UNCHANGED <<clientVars, request, stream, historyVars>>
        /\ pc' \in {"compress", "send"} => pc \in {"compress", "send"}
        /\ pc \in {"compress", "send"} => pc' \in {"send", "report"}
    BY <1>6 DEF Decode, FindService, NoSuchAction, Compress, CompressFails, Refuse, Validated,
                Throw, Handling, historyVars
  <2>2. pc' \in {"compress", "send"} => reply'.code = reply.code
    BY <1>6 DEF Decode, FindService, NoSuchAction, Compress, CompressFails, Refuse, Throw,
                SessionInv, TypeOK
  <2>3. pc' = "report" => /\ reply'.code \in Codes \ Success
                          /\ pc \in {"compress", "send"} => reply'.code = "BufferOverflow"
    BY <1>6 DEF Decode, FindService, NoSuchAction, Compress, CompressFails, Refuse, Throw,
                Codes, Success
  <2>4. inStep' = inStep
    BY <2>1 DEF historyVars
  <2>5. inStep => Kept
    BY <2>1, <2>2, <2>3, HandlingKept DEF SessionInv, OrderInv, Serving, Pcs, Handling
  <2> QED
    BY <2>4, <2>5 DEF OrderInv
<1>7. CASE Perform
  <2>1. inStep' = inStep
    BY <1>7 DEF Perform
  <2> QED
    BY <1>7, <2>1, PerformKept DEF OrderInv
<1>8. CASE SendResponse \/ Report
  <2>1. inStep' = inStep
    BY <1>8 DEF SendResponse, Report
  <2> QED
    BY <1>8, <2>1, AnswerKept DEF OrderInv
<1>9. CASE UNCHANGED vars
  <2>1. UNCHANGED <<pc, conn, sent, request, reply, stream, replies, performed, inStep>>
    BY <1>9 DEF vars, clientVars, serverVars, historyVars
  <2> QED
    BY <2>1 DEF SessionInv, OrderInv, Histories, RepliesInOrder, RepliesTellTheTruth,
                PerformedOnce, NumberInv, StreamInv, ReplyInv, Chained, Follows, Complete, Read,
                Done
<1> QED
  BY <1>1, <1>2, <1>3, <1>4, <1>5, <1>6, <1>7, <1>8, <1>9 DEF Next, Server, Idle

(* The invariant holds of every state. *)
LEMMA InvHolds == Spec => []SessionInv
<1>1. SessionInv /\ [Next]_vars => SessionInv'
  BY TypeKept, ConnKept, OrderKept DEF SessionInv
<1> QED
  BY InitInv, <1>1, PTL DEF Spec

(* Every variable of the session keeps its type. *)
THEOREM TypeCorrect == Spec => []TypeOK
<1>1. SessionInv => TypeOK
  BY DEF SessionInv
<1> QED
  BY <1>1, InvHolds, PTL

(* The k-th reply is the one of the k-th request, whichever way each of    *)
(* them ended.                                                             *)
THEOREM RepliesAreInOrder == Spec => []RepliesInOrder
<1>1. SessionInv => RepliesInOrder
  BY DEF SessionInv, OrderInv, Histories, RepliesInOrder
<1> QED
  BY <1>1, InvHolds, PTL

(* A reply says success exactly of a request that was performed, but for   *)
(* one whose answer was too large.                                         *)
THEOREM RepliesAreTrue == Spec => []RepliesTellTheTruth
<1>1. SessionInv => RepliesTellTheTruth
  BY DEF SessionInv, OrderInv, Histories, RepliesTellTheTruth
<1> QED
  BY <1>1, InvHolds, PTL

(* No request is performed twice, and none after a later one. *)
THEOREM PerformedInOrder == Spec => []PerformedOnce
<1>1. SessionInv => PerformedOnce
  BY DEF SessionInv, OrderInv, Histories, PerformedOnce
<1> QED
  BY <1>1, InvHolds, PTL

(* The server waits for a client only with its socket closed and every     *)
(* service told of the last one.                                           *)
THEOREM ListensLast == Spec => []ListensOnlyWhenNotified
<1>1. SessionInv => ListensOnlyWhenNotified
  BY DEF SessionInv
<1> QED
  BY <1>1, InvHolds, PTL

----------------------------------------------------------------------------
(* The abstract exchange.                                                  *)

(* Nothing is read or handled that was not sent. *)
SentInv ==
  /\ \A i \in 1 .. Len(stream) : stream[i].number <= sent
  /\ pc \in Handling => request.number <= sent

(* What a client sends carries the number of the request sent. *)
LEMMA SendKept ==
  ASSUME TypeOK, SentInv, NEW h \in Headers, Send(h)
  PROVE  SentInv'
<1> DEFINE header == [unit |-> "header", number |-> sent + 1, header |-> h]
           body == [unit |-> "body", number |-> sent + 1, header |-> h]
<1>1. /\ sent \in Nat /\ stream \in Seq(Unit) /\ request.number \in Nat
      /\ sent' = sent + 1 /\ stream' = stream \o Units(h, sent + 1)
      /\ UNCHANGED <<pc, request>>
  BY DEF Send, TypeOK, Unit, Numbers, serverVars
<1>2. Units(h, sent + 1) \in {<<header>>, <<header, body>>}
  BY DEF Units
<1>3. header.number = sent + 1 /\ body.number = sent + 1
  OBVIOUS
<1> HIDE DEF header, body
<1>4. \A i \in 1 .. Len(stream') :
        \/ i \in 1 .. Len(stream) /\ stream'[i] = stream[i]
        \/ stream'[i] \in {header, body}
  <2>1. CASE Units(h, sent + 1) = <<header>>
    BY ONLY <1>1, <2>1
  <2>2. CASE Units(h, sent + 1) = <<header, body>>
    BY ONLY <1>1, <2>2
  <2> QED
    BY <1>2, <2>1, <2>2
<1>5. \A i \in 1 .. Len(stream) : stream[i] \in Unit
  BY ONLY <1>1
<1>6. \A u \in Unit : u.number \in Nat
  BY DEF Unit, Numbers
<1>7. \A i \in 1 .. Len(stream') : stream'[i].number <= sent'
  <2> SUFFICES ASSUME NEW i \in 1 .. Len(stream') PROVE stream'[i].number <= sent + 1
    BY <1>1
  <2>1. CASE i \in 1 .. Len(stream) /\ stream'[i] = stream[i]
    <3>1. stream[i].number \in Nat /\ stream[i].number <= sent
      BY <1>5, <1>6, <2>1 DEF SentInv
    <3> QED
      BY <1>1, <2>1, <3>1
  <2>2. CASE stream'[i] \in {header, body}
    BY <1>1, <1>3, <2>2
  <2> QED
    BY <1>4, <2>1, <2>2
<1>8. pc' \in Handling => request'.number <= sent'
  BY <1>1 DEF SentInv
<1> QED
  BY <1>7, <1>8 DEF SentInv

(* The server takes what it reads from the stream. *)
LEMMA TakeKept ==
  ASSUME TypeOK, SentInv, stream # <<>>, stream' = Tail(stream), sent' = sent,
         pc' \in Handling,
         \/ request'.number = 0 \/ request'.number = Head(stream).number
         \/ pc \in Handling /\ request' = request
  PROVE  SentInv'
<1>1. stream \in Seq(Unit) /\ sent \in Nat
  BY DEF TypeOK, Unit, Numbers
<1>2. /\ Head(stream) = stream[1] /\ Len(stream) \in Nat \ {0}
      /\ Len(stream') = Len(stream) - 1
      /\ \A i \in 1 .. Len(stream') : stream'[i] = stream[i + 1]
  BY <1>1
<1>3. \A i \in 1 .. Len(stream') : stream'[i].number <= sent'
  BY <1>2 DEF SentInv
<1>4. request'.number <= sent'
  BY <1>1, <1>2 DEF SentInv
<1> QED
  BY <1>3, <1>4 DEF SentInv

(* No step reads or handles what was not sent. *)
LEMMA SentKept == ASSUME TypeOK, ConnInv, SentInv, [Next]_vars PROVE SentInv'
<1> USE DEF clientVars, serverVars, historyVars
<1>1. CASE Connect
  BY <1>1 DEF Connect, SentInv, Handling
<1>2. CASE \E h \in Headers : Send(h)
  BY <1>2, SendKept
<1>3. CASE Close
  <2>1. stream \in Seq(Unit)
    BY DEF TypeOK, Unit
  <2>2. PICK n \in 0 .. Len(stream) : stream' = SubSeq(stream, 1, n)
    BY <1>3 DEF Close
  <2>3. Len(stream') = n /\ \A i \in 1 .. n : i \in 1 .. Len(stream) /\ stream'[i] = stream[i]
    BY ONLY <2>1, <2>2
  <2> QED
    BY <1>3, <2>3 DEF Close, SentInv
<1>4. CASE \E h \in Headers : ReadHeader(h)
  <2>1. PICK h \in Headers : ReadHeader(h)
    BY <1>4
  <2>2. /\ stream # <<>> /\ stream' = Tail(stream) /\ sent' = sent
        /\ pc' \in Handling
        /\ request'.number = 0 \/ request'.number = Head(stream).number
    BY <2>1 DEF ReadHeader, Throw, Handling
  <2> QED
    BY <2>2, TakeKept
<1>5. CASE ReadBody
  <2>1. /\ stream # <<>> /\ stream' = Tail(stream) /\ sent' = sent
        /\ pc \in Handling /\ pc' \in Handling /\ request' = request
    BY <1>5 DEF ReadBody, Handling
  <2> QED
    BY <2>1, TakeKept
<1>6. CASE \/ AcceptFails \/ ReadFails \/ ServiceFails \/ SendFails \/ ReportFails
           \/ SendResponse \/ Report \/ (\E s \in Services : Notify(s)) \/ NotifiedAll
  <2>1. UNCHANGED <<stream, sent>> /\ pc' \notin Handling
    BY <1>6 DEF AcceptFails, ReadFails, ServiceFails, SendFails, ReportFails, SendResponse,
                Report, Drop, Notify, NotifiedAll, Handling
  <2> QED
    BY <2>1 DEF SentInv
<1>7. CASE \/ Decode \/ FindService \/ NoSuchAction \/ Perform \/ Compress \/ CompressFails
           \/ \E c \in {"BadRequest", "ConnectionError"} : Refuse(c)
  <2>1. UNCHANGED <<stream, sent, request>> /\ pc \in Handling
    BY <1>7 DEF Decode, FindService, NoSuchAction, Perform, Compress, CompressFails, Refuse,
                Handling
  <2> QED
    BY <2>1 DEF SentInv
<1>8. CASE UNCHANGED vars
  BY <1>8 DEF vars, SentInv
<1> QED
  BY <1>1, <1>2, <1>3, <1>4, <1>5, <1>6, <1>7, <1>8 DEF Next, Client, Server, Idle

(* Both invariants hold of every state. *)
LEMMA SentHolds == Spec => [](SessionInv /\ SentInv)
<1>1. Init => SentInv
  BY DEF Init, SentInv, Handling
<1>2. SessionInv /\ SentInv /\ [Next]_vars => SentInv'
  BY SentKept DEF SessionInv
<1> QED
  BY InvHolds, <1>1, <1>2, PTL DEF Spec

(* The request in hand is one that was sent, and not answered. *)
LEMMA InHandIsSent ==
  ASSUME SessionInv, SentInv, pc \in Handling, inStep
  PROVE  Len(replies) < sent
<1>1. NumberInv /\ Len(replies) \in Nat /\ sent \in Nat
  BY DEF SessionInv, OrderInv, TypeOK, Serving, Handling, Pcs, Numbers
<1> QED
  BY <1>1 DEF NumberInv, SentInv

(* Until a service performs it, it was not performed. *)
LEMMA HandledIsNotDone ==
  ASSUME SessionInv, inStep, pc \in {"body", "decode", "find", "action"}
  PROVE  ~Done(request.number)
<1>1. /\ ReplyInv /\ request.number = Len(replies) + 1
      /\ Len(replies) \in Nat /\ \A i \in 1 .. Len(performed) : performed[i] \in Nat
  BY PerformedType DEF SessionInv, OrderInv, TypeOK, Serving, Pcs, NumberInv, Handling
<1> QED
  BY <1>1 DEF ReplyInv, Done

(* Every step of the client and of the server is a step of the exchange or *)
(* leaves it alone.                                                        *)
THEOREM RefinesExchange == Spec => ImplementsExchange
<1> USE DEF clientVars, serverVars, historyVars
<1>1. Init => EX!Init
  BY DEF Init, EX!Init, DoneNow, LastAnswer
<1>2. SessionInv /\ SentInv /\ [Next]_vars => [EX!Next]_EX!vars
  <2> SUFFICES ASSUME SessionInv, SentInv, [Next]_vars PROVE EX!Next \/ UNCHANGED EX!vars
    OBVIOUS
  <2> USE DEF EX!vars
  <2>1. CASE Connect
    <3>1. conn = "none" /\ notified = Services
      BY <2>1 DEF Connect, SessionInv, ListensOnlyWhenNotified
    <3>2. EX!Accept
      BY <2>1, <3>1 DEF Connect, EX!Accept, DoneNow, LastAnswer
    <3> QED
      BY <3>2 DEF EX!Next
  <2>2. CASE Client
    <3>1. UNCHANGED <<DoneNow, LastAnswer>>
      BY <2>2 DEF Client, Send, Close, DoneNow, LastAnswer
    <3>2. EX!Ask \/ EX!Close
      BY <2>2, <3>1 DEF Client, Send, Close, EX!Ask, EX!Close
    <3> QED
      BY <3>2 DEF EX!Next
  <2>3. CASE \E h \in Headers : ReadHeader(h)
    <3>1. /\ pc = "header" /\ conn # "none" /\ ~DoneNow
          /\ UNCHANGED <<conn, sent, replies, performed, notified, LastAnswer>>
      BY <2>3 DEF ReadHeader, SessionInv, ConnInv, Serving, Pcs, DoneNow, LastAnswer
    <3>2. /\ DoneNow' = FALSE /\ DoneNow' = DoneNow
          /\ inStep' = inStep \/ ~inStep'
      BY <2>3 DEF ReadHeader, Throw, DoneNow
    <3>3. CASE inStep' = inStep
      BY <3>1, <3>2, <3>3
    <3>4. CASE ~inStep'
      <4>1. EX!GoAstray
        BY <3>1, <3>2, <3>4 DEF EX!GoAstray
      <4> QED
        BY <4>1 DEF EX!Next
    <3> QED
      BY <3>2, <3>3, <3>4
  <2>4. CASE \/ ReadBody \/ Decode \/ FindService \/ NoSuchAction \/ Compress \/ CompressFails
             \/ \E c \in {"BadRequest", "ConnectionError"} : Refuse(c)
    <3>1. UNCHANGED <<conn, sent, request, replies, performed, inStep, notified, LastAnswer>>
      BY <2>4 DEF ReadBody, Decode, FindService, NoSuchAction, Compress, CompressFails, Refuse,
                  Validated, LastAnswer
    <3>2. \/ pc \in {"body", "decode", "find", "action"} /\ pc' \notin {"compress", "send"}
          \/ pc = "compress" /\ pc' \in {"send", "report"}
      BY <2>4 DEF ReadBody, Decode, FindService, NoSuchAction, Compress, CompressFails, Refuse,
                  Throw
    <3>3. inStep /\ pc \in {"body", "decode", "find", "action"} => ~Done(request.number)
      BY HandledIsNotDone
    <3>4. DoneNow' <=> DoneNow
      BY <3>1, <3>2, <3>3 DEF DoneNow, Done
    <3> QED
      BY <3>1, <3>4
  <2>5. CASE Perform
    <3>1. /\ pc = "action" /\ conn # "none" /\ ~DoneNow
          /\ UNCHANGED <<conn, sent, replies, inStep, notified, LastAnswer>>
      BY <2>5 DEF Perform, SessionInv, ConnInv, Serving, Pcs, DoneNow, LastAnswer
    <3>2. inStep => Len(replies) < sent
      BY <3>1, InHandIsSent DEF Handling
    <3>3. /\ Len(performed') = Len(performed) + 1
          /\ Len(performed') \in 1 .. Len(performed')
          /\ performed'[Len(performed')] = request'.number
      <4>1. performed \in Seq(Numbers) /\ performed' = Append(performed, request.number)
            /\ request' = request /\ request.number \in Numbers
        BY <2>5 DEF Perform, PerformedNow, SessionInv, TypeOK
      <4> QED
        BY ONLY <4>1
    <3>4. DoneNow' <=> inStep
      BY <2>5, <3>1, <3>3 DEF Perform, DoneNow
    <3>5. DoneNow' = ~~inStep
      BY <3>4 DEF DoneNow
    <3>6. EX!Act
      BY <3>1, <3>2, <3>3, <3>5 DEF EX!Act
    <3> QED
      BY <3>6 DEF EX!Next
  <2>6. CASE SendResponse \/ Report
    <3> DEFINE o == Outcome(reply.code)
    <3>1. /\ pc \in {"send", "report"} /\ conn # "none" /\ ~DoneNow'
          /\ UNCHANGED <<conn, sent, performed, inStep, notified>>
      BY <2>6 DEF SendResponse, Report, SessionInv, ConnInv, Serving, Pcs, DoneNow
    <3>2. inStep => Len(replies) < sent
      BY <3>1, InHandIsSent DEF Handling
    <3>3. Len(replies') = Len(replies) + 1 /\ LastAnswer' = o
      <4> DEFINE next == [number |-> request.number, code |-> reply.code,
                          endpoint |-> reply.endpoint]
      <4>1. replies' = Append(replies, next) /\ next.code = reply.code
        BY <2>6 DEF SendResponse, Report, ReportNext, ReplyNext
      <4> HIDE DEF next
      <4>2. Len(replies) \in Nat /\ replies \in Seq([number : Numbers, code : Codes, endpoint : Int])
        BY DEF SessionInv, TypeOK
      <4>3. /\ Len(replies') = Len(replies) + 1 /\ replies' # <<>>
            /\ replies'[Len(replies')] = next
        BY ONLY <4>1, <4>2
      <4> QED
        BY <4>1, <4>3 DEF LastAnswer
    <3>4. inStep => (o = "success" => DoneNow) /\ (DoneNow => o \in {"success", "tooLarge"})
      <4>1. inStep => ReplyInv
        BY <3>1 DEF SessionInv, OrderInv, Serving, Pcs
      <4> QED
        BY <3>1, <4>1 DEF ReplyInv, Done, DoneNow, Outcome
    <3>5. o \in EX!Outcomes
      BY DEF Outcome, EX!Outcomes
    <3> HIDE DEF o
    <3>6. EX!Answer(o)
      BY <3>1, <3>2, <3>3, <3>4 DEF EX!Answer
    <3> QED
      BY <3>5, <3>6 DEF EX!Next
  <2>7. CASE ReadFails \/ ServiceFails \/ SendFails \/ ReportFails
    <3>1. /\ conn # "none" /\ conn' = "none" /\ ~DoneNow'
          /\ UNCHANGED <<sent, replies, performed, inStep, notified, LastAnswer>>
      BY <2>7 DEF ReadFails, ServiceFails, SendFails, ReportFails, Drop, SessionInv, ConnInv,
                  Serving, Pcs, DoneNow, LastAnswer
    <3>2. EX!Leave
      BY <3>1 DEF EX!Leave
    <3> QED
      BY <3>2 DEF EX!Next
  <2>8. CASE \E s \in Services : Notify(s)
    <3>1. PICK s \in Services : Notify(s)
      BY <2>8
    <3>2. conn = "none" /\ UNCHANGED <<DoneNow, LastAnswer>>
      BY <3>1 DEF Notify, SessionInv, ConnInv, TypeOK, Serving, Pcs, DoneNow, LastAnswer
    <3>3. EX!Tell(s)
      BY <3>1, <3>2 DEF Notify, EX!Tell
    <3> QED
      BY <3>3 DEF EX!Next
  <2>9. CASE AcceptFails \/ NotifiedAll \/ UNCHANGED vars
    <3>1. UNCHANGED <<DoneNow, LastAnswer>>
      BY <2>9 DEF AcceptFails, NotifiedAll, vars, DoneNow, LastAnswer
    <3> QED
      BY <2>9, <3>1 DEF AcceptFails, NotifiedAll, vars
  <2> QED
    BY <2>1, <2>2, <2>3, <2>4, <2>5, <2>6, <2>7, <2>8, <2>9 DEF Next, Server, Idle
<1> QED
  BY <1>1, <1>2, SentHolds, PTL DEF Spec, ImplementsExchange, EX!Spec
=============================================================================
