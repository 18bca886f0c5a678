-------------------------------- MODULE Channel --------------------------------
(***************************************************************************)
(* The answers of the server on their way through a secure channel: cut    *)
(* into numbered chunks (src/ua_securechannel.c), sent over TCP in any     *)
(* portions, put together again (src/ua_connection.c) and matched with the *)
(* one call that waits (__UA_Client_Service and the token renewal it runs  *)
(* first, src/client/ua_client.c).                                         *)
(*                                                                         *)
(* A chunk is a header unit and its body units; recv may return any prefix *)
(* of the units that have been sent.  The server answers in any order and  *)
(* as late as it likes, as it does with publish requests.                  *)
(***************************************************************************)
EXTENDS Naturals, Sequences, SequencesExt, FiniteSets

CONSTANTS
  SeqRange,          \* 2^32: sequence numbers are UInt32
  SeqHigh,         \* 4294966271
  SeqLow,          \* 1024
  Scenarios,       \* [first: sequence number before the first chunk, renewals, shortages]
  Sizes,           \* units of an answer
  SendBuffer,      \* body units that fit into a chunk
  MaxMessageSize,  \* remoteConf.maxMessageSize in units, 0: no limit
  MaxChunkCount,   \* remoteConf.maxChunkCount, 0: no limit
  RecvBuffer,      \* units recv returns at most
  MaxCalls         \* calls of the client (bound)

ASSUME ChannelConstants ==
  /\ {SeqRange, SeqHigh, SeqLow, SendBuffer, MaxMessageSize, MaxChunkCount, RecvBuffer, MaxCalls} \subseteq Nat
  /\ SeqLow < SeqHigh /\ SeqHigh < SeqRange /\ SendBuffer > 0 /\ RecvBuffer > SendBuffer
  /\ Sizes \subseteq Nat \ {0}
  /\ Scenarios \subseteq [first : 0..(SeqRange - 1), renewals : Nat, shortages : Nat]

VARIABLES
  requests,  \* client to server: [req, opn, token]
  pending,   \* request ids the server has yet to answer
  server,    \* the server's end: [seq, token, next, last]; next: 0 or the token issued, last: number received last
  wire,      \* server to client: units [chunk, k]
  open,      \* the client's socket
  buffered,  \* incompleteMessage of the client's connection: units
  caller,    \* the client's end: [seq, token, parts, requestId]
  call,      \* the call in progress: [pc, req, got, st, from, waited]
  sent,      \* whole messages the server has sent, in order (history)
  given,     \* messages given to ProcessResponse, in order (history)
  refused,   \* a chunk was refused for its token or its number (history)
  left       \* renewals and memory shortages still to come (bounds); used: was there one, torn: in a chunk (history)

channelVars == <<requests, pending, server, wire, open, buffered, caller, call, sent, given, refused, left>>

--------------------------------------------------------------------------------
(* Sending *)

Slice(body, i) == SubSeq(body, (i - 1) * SendBuffer + 1, IF i * SendBuffer < Len(body) THEN i * SendBuffer ELSE Len(body))
Plus(seq, n) == (seq + n) % SeqRange

\* UA_SecureChannel_sendChunk: the limits of the receiver.  All chunks before
\* the i-th are full.
TooLarge(body, i) ==
  \/ MaxMessageSize > 0 /\ (i - 1) * (SendBuffer + 1) + 1 + Len(Slice(body, i)) > MaxMessageSize
  \/ MaxChunkCount > 0 /\ i > MaxChunkCount

\* The chunk that ends a message: it is too much, or has the rest of the body.
LastChunk(body) ==
  LET ends == {i \in 1..Len(body) : TooLarge(body, i) \/ i * SendBuffer >= Len(body)}
  IN CHOOSE i \in ends : \A j \in ends : i <= j

\* UA_SecureChannel_sendBinaryMessage: full chunks and a final one, or an abort
\* chunk in the place of the first one that is too much.  UA_atomic_add returns
\* the number after the addition.
sendBinaryMessage(s, req, body) ==
  LET n == LastChunk(body)
      aborted == TooLarge(body, n)
  IN [i \in 1..n |->
       [type |-> "MSG", seq |-> Plus(s.seq, i), req |-> req, token |-> s.token,
        kind |-> IF i < n THEN "C" ELSE IF aborted THEN "A" ELSE "F",
        body |-> IF i = n /\ aborted THEN <<"error">> ELSE Slice(body, i)]]

Units(c) == [k \in 1 .. (1 + Len(c.body)) |-> [chunk |-> c, k |-> k]]
OnWire(chunks) ==
  LET upto[i \in 0..Len(chunks)] == IF i = 0 THEN <<>> ELSE upto[i-1] \o Units(chunks[i])
  IN upto[Len(chunks)]

--------------------------------------------------------------------------------
(* Receiving *)

\* completeChunksUntil, a round of its loop: one more complete chunk.
NextChunk(msg, c) ==
  LET first == msg[c.until + 1]
      until == c.until + 1 + Len(first.chunk.body)
  IN IF c.garbage \/ c.until = Len(msg) THEN c
     ELSE IF first.k # 1 THEN [c EXCEPT !.garbage = TRUE]
     ELSE IF until > Len(msg) THEN c
     ELSE [c EXCEPT !.until = until, !.chunks = Append(@, first.chunk)]

\* completeChunksUntil: the complete chunks of the buffer, where they end, and
\* whether what follows does not start a chunk.
completeChunksUntil(msg) ==
  LET after[k \in 0..Len(msg)] ==
        IF k = 0 THEN [until |-> 0, garbage |-> FALSE, chunks |-> <<>>] ELSE NextChunk(msg, after[k-1])
  IN after[Len(msg)]

\* The allocation of a receive that fails (bound: one): that of the buffer, or for
\* the i-th chunk the entry of its request or the bytes collected in it.
Shortages == {<<0, "none">>, <<0, "buffer">>} \cup (1..RecvBuffer) \X {"entry", "bytes"}

\* What fails at the k-th chunk.
FailsAt(short, k) == IF short[1] = k THEN short[2] ELSE "none"

\* UA_Connection_completeMessages: the complete chunks and what stays buffered;
\* memory may be short for the copy of an incomplete chunk.
Separated(msg, c, short) ==
  IF c.until = Len(msg) THEN [st |-> "Good", chunks |-> c.chunks, keep |-> <<>>]
  ELSE IF c.garbage /\ c.until = 0 THEN [st |-> "BadDecodingError", chunks |-> <<>>, keep |-> <<>>]
  ELSE IF c.garbage THEN [st |-> "Good", chunks |-> c.chunks, keep |-> <<>>]
  ELSE IF short THEN [st |-> "BadOutOfMemory", chunks |-> <<>>, keep |-> <<>>]
  ELSE [st |-> "Good", chunks |-> c.chunks, keep |-> SubSeq(msg, c.until + 1, Len(msg))]
completeMessages(old, new, short) ==
  IF short /\ old # <<>> THEN [st |-> "BadOutOfMemory", chunks |-> <<>>, keep |-> <<>>]
  ELSE Separated(old \o new, completeChunksUntil(old \o new), short)

\* Mutant: numbers are not checked.
SequenceMatches_always(seq, last) == TRUE

\* Mutant: no roll-over.
SequenceMatches_noRollOver(seq, last) == seq = last + 1

\* UA_SecureChannel_processSequenceNumber
SequenceMatches(seq, last) ==
  \/ seq = Plus(last, 1)
  \/ Plus(last, 1) > SeqHigh /\ seq < SeqLow

IsWhole(body) ==
  /\ body # <<>>
  /\ Len(body) = body[1].n
  /\ \A i \in DOMAIN body : body[i] = [req |-> body[1].req, i |-> i, n |-> body[1].n]

\* Mutant: the request id of the answer is not compared.
ProcessResponse_anyId(r, type, req, body) ==
  LET st == IF type # "MSG" THEN "BadTcpMessageTypeInvalid" ELSE IF ~IsWhole(body) THEN "BadDecodingError" ELSE "Good"
  IN [r EXCEPT !.processed = TRUE, !.st = st, !.from = IF st = "Good" THEN body[1].req ELSE @,
               !.given = IF type = "MSG" THEN Append(@, body) ELSE @]

\* ProcessResponse: whatever comes ends the call, and the last message
\* of a receive decides how.
ProcessResponse(r, type, req, body) ==
  LET st == IF type # "MSG" THEN "BadTcpMessageTypeInvalid"
            ELSE IF req # r.req THEN "BadInternalError"
            ELSE IF ~IsWhole(body) THEN "BadDecodingError" ELSE "Good"
  IN [r EXCEPT !.processed = TRUE, !.st = st, !.from = IF st = "Good" THEN body[1].req ELSE @,
               !.given = IF type = "MSG" THEN Append(@, body) ELSE @]

Collected(r, c) == (IF c.req \in DOMAIN r.parts THEN r.parts[c.req] ELSE <<>>) \o c.body
Dropped(r, req) == [r EXCEPT !.parts = [q \in DOMAIN r.parts \ {req} |-> r.parts[q]]]

PutAside(r, req, bytes) == [r EXCEPT !.parts = [q \in DOMAIN r.parts \cup {req} |-> IF q = req THEN bytes ELSE r.parts[q]]]

\* One chunk of UA_SecureChannel_processChunks: append, finalize or remove.  An entry
\* that finds no memory is not made; one whose bytes find none is emptied, and what
\* follows is appended as before.  An entry emptied by the final chunk is not given.
Accepted(r, c, short) ==
  LET known == c.req \in DOMAIN r.parts
  IN CASE c.kind = "C" -> IF short = "entry" /\ ~known THEN r
                          ELSE PutAside(r, c.req, IF short = "bytes" THEN <<>> ELSE Collected(r, c))
       [] c.kind = "F" -> IF short = "bytes" /\ known THEN Dropped(r, c.req)
                          ELSE ProcessResponse(Dropped(r, c.req), c.type, c.req, Collected(r, c))
       [] OTHER -> Dropped(r, c.req)

\* A refused chunk ends the loop, and the rest of the buffer is lost.
processChunk(r, c, short) ==
  IF r.refused THEN r
  ELSE IF c.type = "OPN" THEN ProcessResponse(r, "OPN", 0, c.body)
  ELSE IF c.token # r.token \/ ~SequenceMatches(c.seq, r.seq) THEN [r EXCEPT !.refused = TRUE]
  ELSE Accepted([r EXCEPT !.seq = c.seq], c, short)

\* UA_SecureChannel_processChunks
processChunks(chunks, short) ==
  LET start == [req |-> call.req, processed |-> FALSE, st |-> call.st, from |-> call.from, token |-> caller.token,
                seq |-> caller.seq, parts |-> caller.parts, given |-> given, refused |-> FALSE]
      after[k \in 0..Len(chunks)] == IF k = 0 THEN start ELSE processChunk(after[k-1], chunks[k], FailsAt(short, k))
  IN after[Len(chunks)]

--------------------------------------------------------------------------------
Idle == [pc |-> "idle", req |-> 0, st |-> "none", from |-> 0, waited |-> FALSE]

ChannelInit ==
  \E s \in Scenarios :
    /\ requests = <<>> /\ pending = {} /\ wire = <<>> /\ buffered = <<>> /\ open = TRUE
    /\ server = [seq |-> s.first, token |-> 1, next |-> 0, last |-> 0]
    /\ caller = [seq |-> s.first, token |-> 1, parts |-> <<>>, requestId |-> 0]
    /\ call = Idle
    /\ sent = <<>> /\ given = <<>> /\ refused = FALSE
    /\ left = [renewals |-> s.renewals, shortages |-> s.shortages, used |-> FALSE, torn |-> FALSE]

Returns(st) == call' = [call EXCEPT !.pc = "idle", !.st = st, !.waited = FALSE]

\* The request is written to the socket and the call waits for its answer.
SendRequest(pc, opn, token) ==
  /\ caller' = [caller EXCEPT !.requestId = @ + 1]
  /\ requests' = Append(requests, [req |-> caller.requestId + 1, opn |-> opn, token |-> token])
  /\ call' = [pc |-> pc, req |-> caller.requestId + 1, st |-> "none", from |-> 0, waited |-> FALSE]

\* __UA_Client_Service with a token that is still fresh.
CallService ==
  /\ call.pc = "idle" /\ open /\ caller.requestId < MaxCalls
  /\ SendRequest("waiting", FALSE, caller.token)
  /\ UNCHANGED <<pending, server, wire, open, buffered, sent, given, refused, left>>

\* __UA_Client_Service that has to renew its token first.
RenewToken ==
  /\ call.pc = "idle" /\ open /\ caller.requestId < MaxCalls /\ left.renewals > 0
  /\ SendRequest("renewing", TRUE, caller.token)
  /\ left' = [left EXCEPT !.renewals = @ - 1, !.used = TRUE]
  /\ UNCHANGED <<pending, server, wire, open, buffered, sent, given, refused>>

\* The server takes a request (processChunks and revolveTokens at its end); its number
\* is its request id, for the client counts both up with every request it sends.
ServerReceives ==
  /\ requests # <<>> /\ ~Head(requests).opn
  /\ LET q == Head(requests)
     IN /\ q.token \in {server.token, server.next} /\ q.req = server.last + 1
        /\ pending' = pending \cup {q.req}
        /\ server' = [server EXCEPT !.last = q.req, !.token = q.token,
                                    !.next = IF q.token = server.token THEN @ ELSE 0]
  /\ requests' = Tail(requests)
  /\ UNCHANGED <<wire, open, buffered, caller, call, sent, given, refused, left>>

\* A request with an unknown token or another number is only logged; the connection
\* stays open, and the k - 1 requests received together with it are lost too.
ServerRefuses(k) ==
  /\ k \in 1..Len(requests) /\ ~Head(requests).opn
  /\ ~(Head(requests).token \in {server.token, server.next} /\ Head(requests).req = server.last + 1)
  /\ requests' = SubSeq(requests, k + 1, Len(requests))
  /\ UNCHANGED <<pending, server, wire, open, buffered, caller, call, sent, given, refused, left>>

\* The server issues the next token, if none is issued yet, and answers with it.  It
\* takes the number of the request whatever it is.
ServerRenews ==
  /\ requests # <<>> /\ Head(requests).opn
  /\ requests' = Tail(requests)
  /\ server' = [server EXCEPT !.seq = Plus(@, 1), !.last = Head(requests).req,
                              !.next = IF @ = 0 THEN Head(requests).req + 1 ELSE @]
  /\ wire' = wire \o Units([type |-> "OPN", seq |-> server'.seq, req |-> Head(requests).req, kind |-> "F",
                            token |-> server'.next, body |-> <<"opn">>])
  /\ UNCHANGED <<pending, open, buffered, caller, call, sent, given, refused, left>>

\* cleanupTimedOut makes the next token the current one, used or not.
ServerRevolves ==
  /\ server.next # 0
  /\ server' = [server EXCEPT !.token = server.next, !.next = 0]
  /\ UNCHANGED <<requests, pending, wire, open, buffered, caller, call, sent, given, refused, left>>

\* The server answers a request, unless the answer is too large.
ServerAnswers(req, n) ==
  LET body == [i \in 1..n |-> [req |-> req, i |-> i, n |-> n]]
      chunks == sendBinaryMessage(server, req, body)
  IN /\ req \in pending
     /\ pending' = pending \ {req}
     /\ wire' = wire \o OnWire(chunks)
     /\ server' = [server EXCEPT !.seq = Plus(@, Len(chunks))]
     /\ sent' = IF Last(chunks).kind = "F" THEN Append(sent, body) ELSE sent
     /\ UNCHANGED <<requests, open, buffered, caller, call, given, refused, left>>

\* One recv of UA_Connection_receiveChunksBlocking; short: the allocation that fails.
Receives(n, short) ==
  /\ open /\ n \in 1..Len(wire) /\ n <= RecvBuffer
  /\ short[2] = "none" \/ left.shortages > 0
  /\ wire' = SubSeq(wire, n + 1, Len(wire))
  /\ left' = IF short[2] = "none" THEN left
             ELSE [left EXCEPT !.shortages = @ - 1, !.used = TRUE, !.torn = @ \/ short[1] > 0]
  /\ UNCHANGED <<pending, server, open, sent>>

\* __UA_Client_Service after a recv: nothing complete, or all complete chunks
\* are processed and the call ends with the first receive that brings a message.
ReceiveAnswer(n, short) ==
  LET in == completeMessages(buffered, SubSeq(wire, 1, n), short[2] = "buffer")
      r == processChunks(in.chunks, short)
  IN /\ call.pc = "waiting" /\ Receives(n, short) /\ short[1] <= Len(in.chunks)
     /\ buffered' = in.keep
     /\ caller' = [caller EXCEPT !.seq = r.seq, !.parts = r.parts]
     /\ given' = r.given /\ refused' = (refused \/ r.refused)
     /\ IF in.st # "Good" THEN Returns(in.st)
        ELSE IF r.processed THEN call' = [call EXCEPT !.pc = "idle", !.st = r.st, !.from = r.from, !.waited = FALSE]
        ELSE call' = [call EXCEPT !.waited = TRUE]
     /\ UNCHANGED requests

\* SecureChannelHandshake after a recv: the first chunk must be the answer; it
\* sets the token and the sequence number, and what follows it is lost.  Then the
\* call sends its request.
ReceiveToken(n, short) ==
  LET in == completeMessages(buffered, SubSeq(wire, 1, n), short[2] = "buffer")
  IN /\ call.pc = "renewing" /\ Receives(n, short) /\ short[1] = 0
     /\ buffered' = in.keep
     /\ IF in.st # "Good" THEN Returns(in.st) /\ UNCHANGED <<caller, requests>>
        ELSE IF in.chunks = <<>> THEN call' = [call EXCEPT !.waited = TRUE] /\ UNCHANGED <<caller, requests>>
        ELSE IF in.chunks[1].type # "OPN" THEN Returns("BadInternalError") /\ UNCHANGED <<caller, requests>>
        ELSE /\ caller' = [caller EXCEPT !.seq = in.chunks[1].seq, !.token = in.chunks[1].token, !.requestId = @ + 1]
             /\ requests' = Append(requests, [req |-> caller.requestId + 1, opn |-> FALSE, token |-> in.chunks[1].token])
             /\ call' = [pc |-> "waiting", req |-> caller.requestId + 1, st |-> "none", from |-> 0, waited |-> FALSE]
     /\ UNCHANGED <<given, refused>>

\* The time is over after a recv that did not complete the call: the connection
\* stays open.
TimesOut ==
  /\ call.pc # "idle" /\ call.waited /\ open
  /\ Returns("GoodNonCriticalTimeout")
  /\ UNCHANGED <<requests, pending, server, wire, open, buffered, caller, sent, given, refused, left>>

\* The time is over inside recv, or the peer has closed: the client closes.
SocketTimesOut ==
  /\ call.pc # "idle" /\ (open => wire = <<>>)
  /\ Returns("BadConnectionClosed") /\ open' = FALSE
  /\ UNCHANGED <<requests, pending, server, wire, buffered, caller, sent, given, refused, left>>

ChannelNext ==
  \/ CallService \/ RenewToken \/ ServerReceives \/ ServerRenews \/ ServerRevolves
  \/ \E k \in 1..Len(requests) : ServerRefuses(k)
  \/ \E req \in pending, n \in Sizes : ServerAnswers(req, n)
  \/ \E n \in 1..RecvBuffer, short \in Shortages : ReceiveAnswer(n, short) \/ ReceiveToken(n, short)
  \/ TimesOut \/ SocketTimesOut

ChannelSpec == ChannelInit /\ [][ChannelNext]_channelVars

--------------------------------------------------------------------------------
(* Properties *)

\* The end of a message, or all of it.
EndOf(part, whole) == part # <<>> /\ \E k \in 1..Len(whole) : part = SubSeq(whole, k, Len(whole))

\* What ProcessResponse is given are messages the server sent, in the order they were
\* sent and none twice, however recv cuts the stream and whatever a renewal or a full
\* buffer loses of it, and they are whole, unless a chunk found no memory: then the
\* client goes on collecting, and one may lack its head.  With nothing lost, no message
\* is skipped.
WholeAndInOrder ==
  IF left.used
  THEN \E f \in [1..Len(given) -> 1..Len(sent)] :
         /\ \A i \in DOMAIN given : given[i] = sent[f[i]] \/ (left.torn /\ EndOf(given[i], sent[f[i]]))
         /\ \A i, j \in DOMAIN given : i < j => f[i] < f[j]
  ELSE Len(given) <= Len(sent) /\ given = SubSeq(sent, 1, Len(given))

\* A call that ends GOOD has the answer to its own request, though the answer
\* to a request that was given up may arrive during the next call.
GoodIsOwnAnswer == call.st = "Good" => call.from = call.req

\* As long as no token is renewed and memory suffices, no chunk is refused: the
\* numbers of sender and receiver agree over the end of the 32 bit range.
NothingRefused == refused => left.used
================================================================================
