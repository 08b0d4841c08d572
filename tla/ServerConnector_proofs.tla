----------------------- MODULE ServerConnector_proofs ----------------------
(***************************************************************************)
(* What the connector does for any number of clients, any commands and any  *)
(* sizes of its buffers, as long as the network delivers the four bytes of  *)
(* a length together: it implements CommandService.                         *)
(***************************************************************************)
EXTENDS ServerConnector, SequenceTheorems, TLAPS

-----------------------------------------------------------------------------
(* The inductive invariant: a client's connection is unused, waits in the   *)
(* backlog or is the served one, and in the last case what is on the way    *)
(* between the client and the driver is what the driver's pc says.          *)

\* The client's end of an exchange: in phase, with in on the way to the driver
\* and out on the way to the client, or gone since, which resets the connection
\* if something was left unread or is sent afterwards.
At(c, phase, in, out) ==
    /\ inbox[c] = in
    /\ \/ client[c] = phase /\ connection[c] = "open" /\ outbox[c] = out
       \/ /\ client[c] = "away" /\ outbox[c] = <<>>
          /\ connection[c] = IF out = <<>> THEN "closed" ELSE "reset"

Unused(c) == /\ client[c] = "away" /\ connection[c] = "none"
             /\ request[c] = None /\ inbox[c] = <<>> /\ outbox[c] = <<>>

\* Nothing of what the client has asked for, if anything, has been read.
Unread(c) == \/ request[c] = None /\ At(c, "idle", <<>>, <<>>)
             \/ request[c] # None /\ At(c, "sized", Header(Length(request[c])), <<>>)

\* An exchange the driver has done its part of.
Completed(c) ==
    \/ request[c] = Empty /\ c \notin performed /\ At(c, "sized", <<>>, <<"ack">>)
    \/ /\ request[c] \in Commands /\ c \in performed
       /\ At(c, "answered", <<>>, <<Service!Result(request[c])>>)

\* The part of the text in message_buffer, and the rest on its way.
Receiving(c) ==
    LET text == Encoding[request[c]]
    IN  /\ request[c] \in Commands /\ c \notin performed
        /\ message_size = Len(text) /\ transfer_progressive <= message_size
        /\ \A i \in 1 .. transfer_progressive : message_buffer[i] = text[i]

Arriving(c) ==
    \/ transfer_progressive = 0 /\ At(c, "sized", <<>>, <<"ack">>)
    \/ /\ transfer_progressive < message_size
       /\ At(c, "sent", SubSeq(Encoding[request[c]], transfer_progressive + 1, message_size), <<>>)

Answering(c) ==
    /\ request[c] \in Commands /\ c \in performed
    /\ response = Service!Result(request[c])
    /\ \/ At(c, "sent", <<>>, <<"size">>)
       \/ At(c, "answered", <<Ack>>, <<>>)

Exchange(c) ==
    /\ pc = "size" => (Unread(c) /\ c \notin performed) \/ Completed(c)
    /\ pc = "text" => Receiving(c) /\ Arriving(c)
    /\ pc = "handle" => /\ Receiving(c) /\ transfer_progressive = message_size
                        /\ At(c, "sent", <<>>, <<>>)
    /\ pc = "wait_ack" => Answering(c)

Queued(c) == \E i \in 1 .. Len(backlog) : backlog[i] = c

Backlog ==
    /\ ~Queued(served)
    /\ \A i, j \in 1 .. Len(backlog) : backlog[i] = backlog[j] => i = j

Place(c) == /\ c = served => Exchange(c)
            /\ Queued(c) => Unread(c)
            /\ c # served /\ ~Queued(c) => Unused(c)

\* The driver is not within a command while it starts.
Quiet == /\ performed \subseteq {served}
         /\ ~up => served = None /\ backlog = <<>>
         /\ pc = "size" => transfer_progressive = 0

Inv == TypeOK /\ Backlog /\ Quiet /\ \A c \in Clients : Place(c)

-----------------------------------------------------------------------------
(* Lengths and buffers *)

\* The bytes of every length a client can send give the length back.
LEMMA LengthRoundTrip ==
  ASSUME NEW n \in Nat, Above(Above(Above(n))) \in Bytes
  PROVE  /\ Header(n) \in Seq(Bytes) /\ Len(Header(n)) = HeaderBytes
         /\ Value(Header(n)) = n
<1> DEFINE p == Above(n)  q == Above(p)  r == Above(q)
<1>1. /\ n = (n % 256) + 256 * p /\ n % 256 \in Bytes /\ p \in Nat
  BY DEF Above, Bytes
<1> HIDE DEF p
<1>2. /\ p = (p % 256) + 256 * q /\ p % 256 \in Bytes /\ q \in Nat
  BY <1>1 DEF Above, Bytes
<1> HIDE DEF q
<1>3. /\ q = (q % 256) + 256 * r /\ q % 256 \in Bytes /\ r \in Nat
  BY <1>2 DEF Above, Bytes
<1> HIDE DEF r
<1>4. Header(n) = <<n % 256, p % 256, q % 256, r>> /\ r \in Bytes
  BY DEF Header, p, q, r
<1>5. Value(<<n % 256, p % 256, q % 256, r>>) = n
  BY <1>1, <1>2, <1>3, <1>4 DEF Value
<1>6. QED
  BY <1>1, <1>2, <1>3, <1>4, <1>5 DEF HeaderBytes

LEMMA LengthType ==
  ASSUME NEW m \in Commands \union {Empty}
  PROVE  /\ Length(m) \in Nat /\ Above(Above(Above(Length(m)))) \in Bytes
         /\ Length(m) = 0 <=> m = Empty
<1>1. CASE m = Empty
  BY <1>1 DEF Length, Bytes, Above
<1>2. CASE m # Empty
  <2>1. /\ Encoding[m] \in Seq(Bytes) /\ Encoding[m] # <<>>
        /\ Above(Above(Above(Len(Encoding[m])))) \in Bytes
    BY <1>2, ServerAssumption
  <2>2. /\ Len(Encoding[m]) \in Nat /\ Len(Encoding[m]) # 0
    BY <2>1, EmptySeq
  <2>3. QED
    BY <1>2, <2>1, <2>2 DEF Length
<1>3. QED
  BY <1>1, <1>2

LEMMA RestType ==
  ASSUME NEW s \in Seq(Bytes), NEW n \in Nat
  PROVE  SubSeq(s, n + 1, Len(s)) \in Seq(Bytes)
<1>1. Len(s) \in Nat /\ \A i \in n + 1 .. Len(s) : s[i] \in Bytes
  BY LenProperties, ElementOfSeq
<1>2. QED
  BY <1>1, SubSeqProperties

LEMMA OverwrittenType ==
  ASSUME NEW n \in Nat, NEW buffer \in [1 .. n -> Bytes], NEW bytes \in Seq(Bytes)
  PROVE  /\ Overwritten(buffer, bytes) \in [1 .. n -> Bytes]
         /\ \A i \in 1 .. n : i <= Len(bytes) => Overwritten(buffer, bytes)[i] = bytes[i]
  BY DEF Overwritten

LEMMA CopyAtType ==
  ASSUME NEW n \in Nat, NEW buffer \in [1 .. n -> Bytes], NEW size \in Nat,
         NEW chunk \in [1 .. size -> Bytes], NEW at \in Nat
  PROVE  /\ CopyAt(buffer, at, chunk) \in [1 .. n -> Bytes]
         /\ \A i \in 1 .. n : i <= at => CopyAt(buffer, at, chunk)[i] = buffer[i]
         /\ \A i \in 1 .. n : i - at \in 1 .. size => CopyAt(buffer, at, chunk)[i] = chunk[i - at]
  BY DEF CopyAt

-----------------------------------------------------------------------------
(* Steps of one client                                                      *)

\* A step that changes nothing of the connections of the clients but c.
Others(c) ==
    \A d \in Clients \ {c} :
        /\ client'[d] = client[d] /\ request'[d] = request[d]
        /\ connection'[d] = connection[d]
        /\ inbox'[d] = inbox[d] /\ outbox'[d] = outbox[d]
        /\ d \in performed' <=> d \in performed

LEMMA OthersPlace ==
  ASSUME NEW c \in Clients, NEW d \in Clients \ {c}, Place(d), Others(c),
         UNCHANGED <<served, backlog>>,
         served # c => UNCHANGED <<pc, message_size, transfer_progressive,
                                   message_buffer, response>>
  PROVE  Place(d)'
<1>1. /\ client'[d] = client[d] /\ request'[d] = request[d]
      /\ connection'[d] = connection[d]
      /\ inbox'[d] = inbox[d] /\ outbox'[d] = outbox[d]
      /\ d \in performed' <=> d \in performed
  BY DEF Others
<1>2. Length(request[d])' = Length(request[d])
  BY <1>1 DEF Length
<1>3. Unused(d)' <=> Unused(d)
  BY <1>1 DEF Unused
<1>4. Unread(d)' <=> Unread(d)
  BY <1>1, <1>2 DEF Unread, At
<1>5. Queued(d)' <=> Queued(d)
  BY DEF Queued
<1>6. CASE d = served
  <2>1. UNCHANGED <<pc, message_size, transfer_progressive, message_buffer, response>>
    BY <1>6
  <2>2. Completed(d)' <=> Completed(d)
    BY <1>1 DEF Completed, At
  <2>3. Receiving(d)' <=> Receiving(d)
    BY <1>1, <2>1 DEF Receiving
  <2>4. Arriving(d)' <=> Arriving(d)
    BY <1>1, <2>1 DEF Arriving, At
  <2>5. Answering(d)' <=> Answering(d)
    BY <1>1, <2>1 DEF Answering, At
  <2>6. At(d, "sent", <<>>, <<>>)' <=> At(d, "sent", <<>>, <<>>)
    BY <1>1 DEF At
  <2>7. Exchange(d)'
    BY <1>1, <1>4, <1>6, <2>1, <2>2, <2>3, <2>4, <2>5, <2>6 DEF Place, Exchange
  <2>8. QED
    BY <1>3, <1>4, <1>5, <2>7 DEF Place
<1>7. CASE d # served
  BY <1>3, <1>4, <1>5, <1>7 DEF Place
<1>8. QED
  BY <1>6, <1>7

LEMMA ClientInv ==
  ASSUME Inv, NEW c \in Clients, UNCHANGED <<up, server, backlog>>, Others(c),
         TypeOK', performed' \subseteq performed, Place(c)'
  PROVE  Inv'
<1>1. Backlog'
  BY DEF Inv, Backlog, Queued, server
<1>2. Quiet'
  BY DEF Inv, Quiet, server
<1>3. \A d \in Clients \ {c} : Place(d)'
  BY OthersPlace DEF Inv, server
<1>4. QED
  BY <1>1, <1>2, <1>3 DEF Inv

\* Where the driver is when a client gets each message.
LEMMA AckArrives ==
  ASSUME Inv, NEW c \in Clients, client[c] = "sized", outbox[c] # <<>>
  PROVE  /\ c = served /\ c \notin performed
         /\ connection[c] = "open" /\ inbox[c] = <<>> /\ outbox[c] = <<"ack">>
         /\ \/ pc = "size" /\ request[c] = Empty
            \/ pc = "text" /\ Receiving(c) /\ transfer_progressive = 0
<1>1. Place(c) /\ TypeOK
  BY DEF Inv
<1>2. ~Unused(c) /\ ~Unread(c)
  BY DEF Unused, Unread, At
<1>3. c = served /\ Exchange(c) /\ pc \in {"size", "text", "handle", "wait_ack"}
  BY <1>1, <1>2, ServerAssumption DEF Place, TypeOK
<1>4. CASE pc = "size"
  BY <1>2, <1>3, <1>4 DEF Exchange, Completed, At
<1>5. CASE pc = "text"
  BY <1>3, <1>5 DEF Exchange, Arriving, At, Receiving
<1>6. CASE pc \in {"handle", "wait_ack"}
  BY <1>3, <1>6 DEF Exchange, Answering, At
<1>7. QED
  BY <1>3, <1>4, <1>5, <1>6

LEMMA SizeArrives ==
  ASSUME Inv, NEW c \in Clients, client[c] = "sent", outbox[c] # <<>>
  PROVE  /\ c = served /\ c \in performed /\ pc = "wait_ack"
         /\ request[c] \in Commands /\ response = Service!Result(request[c])
         /\ connection[c] = "open" /\ inbox[c] = <<>> /\ outbox[c] = <<"size">>
<1>1. Place(c) /\ TypeOK
  BY DEF Inv
<1>2. ~Unused(c) /\ ~Unread(c)
  BY DEF Unused, Unread, At
<1>3. c = served /\ Exchange(c) /\ pc \in {"size", "text", "handle", "wait_ack"}
  BY <1>1, <1>2, ServerAssumption DEF Place, TypeOK
<1>4. pc = "wait_ack"
  BY <1>2, <1>3 DEF Exchange, Completed, Arriving, At
<1>5. QED
  BY <1>3, <1>4 DEF Exchange, Answering, At

LEMMA ResponseArrives ==
  ASSUME Inv, NEW c \in Clients, client[c] = "answered", outbox[c] # <<>>
  PROVE  /\ c = served /\ c \in performed /\ pc = "size" /\ request[c] \in Commands
         /\ connection[c] = "open" /\ inbox[c] = <<>>
         /\ outbox[c] = <<Service!Result(request[c])>>
<1>1. Place(c) /\ TypeOK
  BY DEF Inv
<1>2. ~Unused(c) /\ ~Unread(c)
  BY DEF Unused, Unread, At
<1>3. c = served /\ Exchange(c) /\ pc \in {"size", "text", "handle", "wait_ack"}
  BY <1>1, <1>2, ServerAssumption DEF Place, TypeOK
<1>4. pc = "size"
  BY <1>2, <1>3 DEF Exchange, Answering, Arriving, At
<1>5. QED
  BY <1>2, <1>3, <1>4 DEF Exchange, Completed, At

LEMMA GetAckInv ==
  ASSUME Inv, NEW c \in Clients, GetAck(c)
  PROVE  Inv'
<1>1. /\ client[c] = "sized" /\ outbox[c] # <<>> /\ outbox' = [outbox EXCEPT ![c] = Tail(@)]
      /\ TypeOK
      /\ UNCHANGED <<up, server, connection, backlog, answer, asked, history>>
  BY DEF GetAck, Gets, Inv
<1>2. /\ c = served /\ c \notin performed
      /\ connection[c] = "open" /\ inbox[c] = <<>> /\ outbox[c] = <<"ack">>
      /\ \/ pc = "size" /\ request[c] = Empty
         \/ pc = "text" /\ Receiving(c) /\ transfer_progressive = 0
  BY <1>1, AckArrives
<1>3. outbox' = [outbox EXCEPT ![c] = <<>>] /\ outbox' \in [Clients -> Seq(Messages)]
  <2>1. Tail(outbox[c]) = <<>>
    BY <1>2
  <2>2. QED
    BY <1>1, <2>1, EmptySeq DEF TypeOK
<1>4. CASE request[c] = Empty
  <2>1. /\ client' = [client EXCEPT ![c] = "idle"] /\ request' = [request EXCEPT ![c] = None]
        /\ inbox' = inbox
    BY <1>4 DEF GetAck
  <2>2. TypeOK'
    BY <1>1, <1>3, <2>1 DEF TypeOK, server, history
  <2>3. Others(c)
    BY <1>1, <1>3, <2>1 DEF Others, TypeOK, history
  <2>4. Unread(c)'
    BY <1>1, <1>2, <1>3, <2>1 DEF Unread, At, TypeOK
  <2>5. pc = "size"
    BY <1>2, <1>4, ServerAssumption DEF Receiving
  <2>6. ~Queued(c)
    BY <1>2 DEF Inv, Backlog
  <2>7. Place(c)'
    BY <1>1, <1>2, <2>4, <2>5, <2>6 DEF Place, Exchange, server, history, Queued
  <2>8. QED
    BY <1>1, <2>2, <2>3, <2>7, ClientInv DEF history
<1>5. CASE request[c] # Empty
  <2> DEFINE text == Encoding[request[c]]
  <2>1. /\ client' = [client EXCEPT ![c] = "sent"] /\ request' = request
        /\ inbox' = [inbox EXCEPT ![c] = inbox[c] \o text]
    BY <1>5 DEF GetAck, ClientSends
  <2>2. /\ pc = "text" /\ Receiving(c) /\ transfer_progressive = 0
        /\ request[c] \in Commands /\ message_size = Len(text)
    BY <1>2, <1>5 DEF Receiving
  <2>3. text \in Seq(Bytes) /\ Len(text) \in Nat \ {0} /\ SubSeq(text, 1, Len(text)) = text
    BY <2>2, ServerAssumption, EmptySeq, SubSeqFull
  <2> HIDE DEF text
  <2>4. <<>> \o text = text
    BY <2>3, ConcatEmptySeq
  <2>5. inbox' = [inbox EXCEPT ![c] = text] /\ inbox' \in [Clients -> Seq(Bytes)]
    BY <1>1, <1>2, <2>1, <2>3, <2>4 DEF TypeOK
  <2>6. TypeOK'
    BY <1>1, <1>3, <2>1, <2>5 DEF TypeOK, server, history
  <2>7. Others(c)
    BY <1>1, <1>3, <2>1, <2>5 DEF Others, TypeOK, history
  <2>8. Arriving(c)'
    <3>1. client'[c] = "sent" /\ connection'[c] = "open" /\ outbox'[c] = <<>> /\ inbox'[c] = text
      BY <1>1, <1>2, <1>3, <2>1, <2>5 DEF TypeOK
    <3>2. /\ transfer_progressive' = 0 /\ message_size' = Len(text)
          /\ text = Encoding[request'[c]]
      BY <1>1, <2>1, <2>2 DEF server, text
    <3>3. SubSeq(Encoding[request'[c]], transfer_progressive' + 1, message_size') = text
      BY <3>2, <2>3
    <3>4. QED
      BY <3>1, <3>2, <3>3, <2>3 DEF Arriving, At
  <2>9. Receiving(c)'
    BY <1>1, <2>1, <2>2 DEF Receiving, server, history
  <2>10. ~Queued(c)
    BY <1>2 DEF Inv, Backlog
  <2>11. Place(c)'
    BY <1>1, <1>2, <2>2, <2>8, <2>9, <2>10 DEF Place, Exchange, server, Queued
  <2>12. QED
    BY <1>1, <2>6, <2>7, <2>11, ClientInv DEF history
<1>6. QED
  BY <1>4, <1>5

LEMMA GetSizeInv ==
  ASSUME Inv, NEW c \in Clients, GetSize(c)
  PROVE  Inv'
<1>1. /\ client[c] = "sent" /\ outbox[c] # <<>> /\ outbox' = [outbox EXCEPT ![c] = Tail(@)]
      /\ client' = [client EXCEPT ![c] = "answered"]
      /\ inbox' = [inbox EXCEPT ![c] = inbox[c] \o <<Ack>>]
      /\ TypeOK
      /\ UNCHANGED <<up, server, connection, backlog, request, answer, asked, history>>
  BY DEF GetSize, Gets, ClientSends, Inv
<1>2. /\ c = served /\ c \in performed /\ pc = "wait_ack"
      /\ request[c] \in Commands /\ response = Service!Result(request[c])
      /\ connection[c] = "open" /\ inbox[c] = <<>> /\ outbox[c] = <<"size">>
  BY <1>1, SizeArrives
<1>3. outbox' = [outbox EXCEPT ![c] = <<>>] /\ outbox' \in [Clients -> Seq(Messages)]
  <2>1. Tail(outbox[c]) = <<>>
    BY <1>2
  <2>2. QED
    BY <1>1, <2>1, EmptySeq DEF TypeOK
<1>4. inbox' = [inbox EXCEPT ![c] = <<Ack>>] /\ inbox' \in [Clients -> Seq(Bytes)]
  <2>1. <<Ack>> \in Seq(Bytes)
    BY DEF Ack, Bytes
  <2>2. <<>> \o <<Ack>> = <<Ack>>
    BY <2>1, ConcatEmptySeq
  <2>3. QED
    BY <1>1, <1>2, <2>1, <2>2 DEF TypeOK
<1>5. TypeOK'
  BY <1>1, <1>3, <1>4 DEF TypeOK, server, history
<1>6. Others(c)
  BY <1>1, <1>3, <1>4 DEF Others, TypeOK, history
<1>7. Answering(c)'
  BY <1>1, <1>2, <1>3, <1>4 DEF Answering, At, server, history, TypeOK
<1>8. ~Queued(c)
  BY <1>2 DEF Inv, Backlog
<1>9. Place(c)'
  BY <1>1, <1>2, <1>7, <1>8 DEF Place, Exchange, server, Queued
<1>10. QED
  BY <1>1, <1>5, <1>6, <1>9, ClientInv DEF history

LEMMA GetResponseInv ==
  ASSUME Inv, NEW c \in Clients, GetResponse(c)
  PROVE  Inv'
<1>1. /\ client[c] = "answered" /\ outbox[c] # <<>> /\ outbox' = [outbox EXCEPT ![c] = Tail(@)]
      /\ client' = [client EXCEPT ![c] = "idle"]
      /\ request' = [request EXCEPT ![c] = None]
      /\ answer' = [answer EXCEPT ![c] = Head(outbox[c])]
      /\ performed' = performed \ {c}
      /\ TypeOK
      /\ UNCHANGED <<up, server, connection, backlog, inbox, asked, journal>>
  BY DEF GetResponse, Gets, Inv
<1>2. /\ c = served /\ c \in performed /\ pc = "size" /\ request[c] \in Commands
      /\ connection[c] = "open" /\ inbox[c] = <<>>
      /\ outbox[c] = <<Service!Result(request[c])>>
  BY <1>1, ResponseArrives
<1>3. outbox' = [outbox EXCEPT ![c] = <<>>] /\ outbox' \in [Clients -> Seq(Messages)]
  <2>1. Tail(outbox[c]) = <<>>
    BY <1>2
  <2>2. QED
    BY <1>1, <2>1, EmptySeq DEF TypeOK
<1>4. answer' \in [Clients -> Messages \union {None}]
  <2>1. Head(outbox[c]) = Service!Result(request[c])
    BY <1>2
  <2>2. QED
    BY <1>1, <1>2, <2>1 DEF TypeOK, Messages
<1>5. TypeOK'
  BY <1>1, <1>3, <1>4 DEF TypeOK, server
<1>6. Others(c)
  BY <1>1, <1>3 DEF Others, TypeOK
<1>7. Unread(c)' /\ c \notin performed'
  BY <1>1, <1>2, <1>3 DEF Unread, At, TypeOK
<1>8. ~Queued(c)
  BY <1>2 DEF Inv, Backlog
<1>9. Place(c)'
  BY <1>1, <1>2, <1>7, <1>8 DEF Place, Exchange, server, Queued
<1>10. QED
  BY <1>1, <1>5, <1>6, <1>9, ClientInv

LEMMA LeaveAt ==
  ASSUME TypeOK, NEW c \in Clients, Leave(c), NEW phase, NEW in, NEW out,
         At(c, phase, in, out)
  PROVE  At(c, phase, in, out)'
  BY DEF Leave, At, TypeOK

LEMMA LeaveInv ==
  ASSUME Inv, NEW c \in Clients, Leave(c)
  PROVE  Inv'
<1>1. /\ client[c] # "away"
      /\ client' = [client EXCEPT ![c] = "away"]
      /\ connection' = [connection EXCEPT ![c] = IF outbox[c] = <<>> THEN "closed" ELSE "reset"]
      /\ outbox' = [outbox EXCEPT ![c] = <<>>]
      /\ TypeOK /\ Place(c)
      /\ UNCHANGED <<up, server, backlog, inbox, request, answer, asked, history>>
  BY DEF Leave, Inv
<1>2. TypeOK'
  <2>1. outbox' \in [Clients -> Seq(Messages)]
    BY <1>1, EmptySeq DEF TypeOK
  <2>2. QED
    BY <1>1, <2>1 DEF TypeOK, server, history
<1>3. Others(c)
  BY <1>1 DEF Others, TypeOK, history
<1>4. Length(request[c])' = Length(request[c])
  BY <1>1 DEF Length
<1>5. Unread(c) => Unread(c)'
  BY <1>1, <1>4, LeaveAt DEF Unread
<1>6. Completed(c) => Completed(c)'
  BY <1>1, LeaveAt DEF Completed, history
<1>7. Receiving(c) => Receiving(c)'
  BY <1>1 DEF Receiving, server, history
<1>8. Arriving(c) => Arriving(c)'
  BY <1>1, LeaveAt DEF Arriving, server
<1>9. Answering(c) => Answering(c)'
  BY <1>1, LeaveAt DEF Answering, server, history
<1>10. Exchange(c) => Exchange(c)'
  BY <1>1, <1>5, <1>6, <1>7, <1>8, <1>9, LeaveAt DEF Exchange, server, history
<1>11. Place(c)'
  BY <1>1, <1>5, <1>10 DEF Place, server, Queued, Unused
<1>12. QED
  BY <1>1, <1>2, <1>3, <1>11, ClientInv DEF history

\* A client that is idle has its connection to itself.
LEMMA IdleUnread ==
  ASSUME Inv, NEW c \in Clients, client[c] = "idle"
  PROVE  /\ request[c] = None /\ At(c, "idle", <<>>, <<>>)
         /\ connection[c] = "open" /\ inbox[c] = <<>> /\ outbox[c] = <<>>
         /\ c \notin performed
         /\ (c = served /\ pc = "size" /\ ~Queued(c)) \/ (c # served /\ Queued(c))
<1>1. Place(c) /\ TypeOK /\ Backlog /\ Quiet
  BY DEF Inv
<1>2. ~Unused(c) /\ ~Completed(c) /\ ~Arriving(c) /\ ~Answering(c) /\ ~At(c, "sent", <<>>, <<>>)
  BY DEF Unused, Completed, Arriving, Answering, At
<1>3. CASE c = served
  <2>1. /\ Exchange(c) /\ pc \in {"size", "text", "handle", "wait_ack"} /\ ~Queued(c)
    BY <1>1, <1>3, ServerAssumption DEF Place, TypeOK, Backlog
  <2>2. pc = "size" /\ Unread(c) /\ c \notin performed
    BY <1>2, <2>1 DEF Exchange
  <2>3. QED
    BY <1>3, <2>1, <2>2 DEF Unread, At
<1>4. CASE c # served
  <2>1. Queued(c) /\ Unread(c) /\ c \notin performed
    BY <1>1, <1>2, <1>4 DEF Place, Quiet
  <2>2. QED
    BY <1>4, <2>1 DEF Unread, At
<1>5. QED
  BY <1>3, <1>4

LEMMA AskForInv ==
  ASSUME Inv, NEW c \in Clients, NEW m \in Commands \union {Empty}, AskFor(c, m)
  PROVE  Inv'
<1>1. /\ client[c] = "idle" /\ asked < MaxRequests /\ asked' = asked + 1
      /\ request' = [request EXCEPT ![c] = m]
      /\ client' = [client EXCEPT ![c] = "sized"]
      /\ inbox' = [inbox EXCEPT ![c] = inbox[c] \o Header(Length(m))]
      /\ TypeOK
      /\ UNCHANGED <<up, server, connection, backlog, outbox, answer, history>>
  BY DEF AskFor, ClientSends, Inv
<1>2. /\ request[c] = None
      /\ connection[c] = "open" /\ inbox[c] = <<>> /\ outbox[c] = <<>>
      /\ c \notin performed
      /\ (c = served /\ pc = "size" /\ ~Queued(c)) \/ (c # served /\ Queued(c))
  BY <1>1, IdleUnread
<1>3. request'[c] = m
  BY <1>1 DEF TypeOK
<1>5. Header(Length(m)) \in Seq(Bytes) /\ <<>> \o Header(Length(m)) = Header(Length(m))
  BY LengthType, LengthRoundTrip, ConcatEmptySeq
<1>6. inbox' = [inbox EXCEPT ![c] = Header(Length(m))] /\ inbox' \in [Clients -> Seq(Bytes)]
  BY <1>1, <1>2, <1>5 DEF TypeOK
<1>7. TypeOK'
  <2>1. asked' \in 0 .. MaxRequests
    BY <1>1, ServerAssumption DEF TypeOK
  <2>2. QED
    BY <1>1, <1>6, <2>1 DEF TypeOK, server, history
<1>8. Others(c)
  BY <1>1, <1>6 DEF Others, TypeOK, history
<1>9. Unread(c)'
  <2>1. request'[c] # None
    BY <1>3, ServerAssumption
  <2>2. At(c, "sized", Header(Length(request[c])), <<>>)'
    BY <1>1, <1>2, <1>3, <1>6 DEF At, TypeOK
  <2>3. QED
    BY <2>1, <2>2 DEF Unread
<1>10. Place(c)'
  BY <1>1, <1>2, <1>9 DEF Place, Exchange, server, history, Queued
<1>11. QED
  BY <1>1, <1>7, <1>8, <1>10, ClientInv DEF history

LEMMA ConnectInv ==
  ASSUME Inv, NEW c \in Clients, Connect(c)
  PROVE  Inv'
<1>1. /\ up /\ client[c] = "away" /\ connection[c] = "none"
      /\ client' = [client EXCEPT ![c] = "idle"]
      /\ connection' = [connection EXCEPT ![c] = "open"]
      /\ backlog' = Append(backlog, c)
      /\ TypeOK /\ Backlog /\ Quiet /\ Place(c)
      /\ UNCHANGED <<up, server, inbox, outbox, request, answer, asked, history>>
  BY DEF Connect, Inv
<1>2. Unused(c) /\ c # served /\ ~Queued(c)
  <2>1. ~Unread(c) /\ ~Completed(c) /\ ~Arriving(c) /\ ~Answering(c) /\ ~At(c, "sent", <<>>, <<>>)
    BY <1>1 DEF Unread, Completed, Arriving, Answering, At
  <2>2. QED
    BY <1>1, <2>1, ServerAssumption DEF Place, Exchange, TypeOK
<1>3. /\ backlog' \in Seq(Clients) /\ Len(backlog') = Len(backlog) + 1 /\ Len(backlog) \in Nat
      /\ \A i \in 1 .. Len(backlog) : backlog'[i] = backlog[i]
      /\ backlog'[Len(backlog) + 1] = c
  BY <1>1, AppendProperties, LenProperties DEF TypeOK
<1>4. /\ Queued(c)'
      /\ \A d : d # c => (Queued(d)' <=> Queued(d))
  BY <1>3 DEF Queued
<1>5. TypeOK'
  BY <1>1, <1>3 DEF TypeOK, server, history
<1>6. Backlog'
  <2>1. served' = served /\ ~Queued(served)'
    BY <1>1, <1>2, <1>4 DEF Backlog, server
  <2>2. \A i, j \in 1 .. Len(backlog') : backlog'[i] = backlog'[j] => i = j
    <3>1. \A i \in 1 .. Len(backlog) : backlog'[i] # c
      BY <1>2, <1>3 DEF Queued
    <3>2. QED
      BY <1>1, <1>3, <3>1 DEF Backlog
  <2>3. QED
    BY <2>1, <2>2 DEF Backlog
<1>7. Quiet'
  BY <1>1 DEF Quiet, server, history
<1>8. Place(c)'
  BY <1>1, <1>2, <1>4 DEF Place, server, Unread, At, Unused, TypeOK
<1>9. ASSUME NEW d \in Clients \ {c} PROVE Place(d)'
  <2>1. Place(d) /\ (Queued(d)' <=> Queued(d))
    BY <1>4 DEF Inv
  <2>2. /\ client'[d] = client[d] /\ request'[d] = request[d] /\ connection'[d] = connection[d]
        /\ inbox'[d] = inbox[d] /\ outbox'[d] = outbox[d]
    BY <1>1 DEF TypeOK
  <2>3. Length(request[d])' = Length(request[d])
    BY <2>2 DEF Length
  <2>4. /\ (Unused(d)' <=> Unused(d)) /\ (Unread(d)' <=> Unread(d))
    BY <2>2, <2>3 DEF Unused, Unread, At
  <2>5. Exchange(d)' <=> Exchange(d)
    BY <1>1, <2>2, <2>4 DEF Exchange, Completed, Receiving, Arriving, Answering, At, server, history
  <2>6. QED
    BY <1>1, <2>1, <2>4, <2>5 DEF Place, server
<1>10. QED
  BY <1>5, <1>6, <1>7, <1>8, <1>9 DEF Inv

-----------------------------------------------------------------------------
(* Steps of the driver                                                      *)

LEMMA Serving ==
  ASSUME Inv, pc # "accept"
  PROVE  served \in Clients /\ Exchange(served) /\ ~Queued(served) /\ up
<1>1. TypeOK /\ Backlog /\ Quiet
  BY DEF Inv
<1>2. served \in Clients /\ Place(served)
  BY <1>1 DEF Inv, TypeOK
<1>3. QED
  BY <1>1, <1>2, ServerAssumption DEF Place, Backlog, Quiet

\* The end of the driver leaves no connection.
LEMMA DieInv ==
  ASSUME Inv, Die, journal' \in Seq(Commands \ Rejected)
  PROVE  Inv'
<1>1. /\ up' = FALSE /\ pc' = "accept" /\ served' = None
      /\ cur_size' = 0 /\ message_size' = 0 /\ transfer_progressive' = 0
      /\ raw_command_size' = Zeros(HeaderBytes)
      /\ chunk_buffer' = Zeros(ChunkSize) /\ message_buffer' = Zeros(BufferSize)
      /\ response' = None
      /\ connection' = [c \in Clients |-> "none"]
      /\ backlog' = <<>>
      /\ inbox' = [c \in Clients |-> <<>>] /\ outbox' = [c \in Clients |-> <<>>]
      /\ client' = [c \in Clients |-> "away"]
      /\ request' = [c \in Clients |-> None]
      /\ performed' = {}
      /\ UNCHANGED <<answer, asked>>
      /\ TypeOK
  BY DEF Die, Inv
<1>2. ASSUME NEW n \in Nat PROVE Zeros(n) \in [1 .. n -> Bytes]
  BY DEF Zeros, Bytes
<1>3. TypeOK'
  <2>1. /\ raw_command_size' \in [1 .. HeaderBytes -> Bytes]
        /\ chunk_buffer' \in [1 .. ChunkSize -> Bytes]
        /\ message_buffer' \in [1 .. BufferSize -> Bytes]
    BY <1>1, <1>2, ServerAssumption DEF HeaderBytes
  <2>2. /\ inbox' \in [Clients -> Seq(Bytes)] /\ outbox' \in [Clients -> Seq(Messages)]
        /\ backlog' \in Seq(Clients)
    BY <1>1, EmptySeq
  <2>3. /\ pc' = "accept" /\ served' = None
        /\ cur_size' \in Nat /\ message_size' \in Nat
        /\ transfer_progressive' \in 0 .. BufferSize
    BY <1>1, ServerAssumption
  <2>4. /\ client' \in [Clients -> {"away", "idle", "sized", "sent", "answered"}]
        /\ request' \in [Clients -> Commands \union {Empty, None}]
        /\ connection' \in [Clients -> {"none", "open", "closed", "reset"}]
    BY <1>1
  <2>5. /\ answer' \in [Clients -> Messages \union {None}] /\ asked' \in 0 .. MaxRequests
    BY <1>1 DEF TypeOK
  <2>6. up' \in BOOLEAN
    BY <1>1, Zenon
  <2>7. response' \in Messages \union {None} /\ performed' \subseteq Clients
    BY <1>1
  <2>8. QED
    BY <1>1, <2>1, <2>2, <2>3, <2>4, <2>5, <2>6, <2>7 DEF TypeOK
<1>4. Len(backlog') = 0
  BY <1>1, EmptySeq
<1>5. Backlog' /\ Quiet'
  BY <1>1, <1>4 DEF Backlog, Quiet, Queued
<1>6. ASSUME NEW c \in Clients PROVE Place(c)'
  BY <1>1, <1>4, ServerAssumption DEF Place, Unused, Queued
<1>7. QED
  BY <1>3, <1>5, <1>6 DEF Inv

\* A step of the driver that serves c.
LEMMA ServeInv ==
  ASSUME Inv, NEW c \in Clients, c = served, pc # "accept", Others(c),
         UNCHANGED <<up, served, backlog>>,
         TypeOK', performed' \subseteq {served}, Exchange(c)',
         pc' = "size" => transfer_progressive' = 0
  PROVE  Inv'
<1>1. ~Queued(c) /\ up
  BY Serving
<1>2. Backlog'
  BY DEF Inv, Backlog, Queued
<1>3. Quiet'
  BY <1>1 DEF Quiet
<1>4. ASSUME NEW d \in Clients \ {c} PROVE Place(d)'
  BY <1>4, OthersPlace DEF Inv
<1>5. Place(c)'
  BY <1>1 DEF Place, Queued
<1>6. QED
  BY <1>2, <1>3, <1>4, <1>5 DEF Inv

\* A message sent to a client that has none to read.
LEMMA SendEffect ==
  ASSUME TypeOK, NEW c \in Clients, c = served, NEW phase, NEW in, NEW message \in Messages,
         At(c, phase, in, <<>>), phase # "away", Send(message), UNCHANGED client
  PROVE  /\ \A new : inbox'[c] = new => At(c, phase, new, <<message>>)'
         /\ outbox' \in [Clients -> Seq(Messages)]
         /\ connection' \in [Clients -> {"none", "open", "closed", "reset"}]
         /\ \A d \in Clients \ {c} : connection'[d] = connection[d] /\ outbox'[d] = outbox[d]
<1>1. CASE connection[c] = "open"
  <2>1. connection' = connection /\ outbox' = [outbox EXCEPT ![c] = Append(outbox[c], message)]
    BY <1>1 DEF Send
  <2>2. client[c] = phase /\ outbox[c] = <<>>
    BY <1>1 DEF At
  <2>3. Append(<<>>, message) = <<message>> /\ <<message>> \in Seq(Messages)
    OBVIOUS
  <2>4. QED
    BY <1>1, <2>1, <2>2, <2>3 DEF At, TypeOK
<1>2. CASE connection[c] # "open"
  <2>1. connection' = [connection EXCEPT ![c] = "reset"] /\ outbox' = outbox
    BY <1>2 DEF Send
  <2>2. client[c] = "away" /\ outbox[c] = <<>>
    BY <1>2 DEF At
  <2>3. <<message>> # <<>>
    OBVIOUS
  <2>4. QED
    BY <1>2, <2>1, <2>2, <2>3 DEF At, TypeOK
<1>3. QED
  BY <1>1, <1>2

\* Only a client that has left, with something unread, resets its connection.
LEMMA SendSucceeds ==
  ASSUME NEW c, c = served, NEW phase, NEW in, At(c, phase, in, <<>>)
  PROVE  ~SendFails
  BY DEF At, SendFails

\* With lengths delivered whole, the first read of a command is of all of one.
LEMMA ReadSizeEffect ==
  ASSUME Inv, WholeHeaders, ReadSize
  PROVE  /\ served \in Clients /\ pc = "size" /\ served \notin performed
         /\ request[served] \in Commands \union {Empty}
         /\ At(served, "sized", Header(Length(request[served])), <<>>)
         /\ Send("ack")
         /\ inbox' = [inbox EXCEPT ![served] = <<>>]
         /\ message_size' = Length(request[served])
         /\ cur_size' \in Nat /\ raw_command_size' \in [1 .. HeaderBytes -> Bytes]
         /\ IF request[served] = Empty THEN pc' = "size" ELSE pc' = "text"
         /\ UNCHANGED <<up, served, transfer_progressive, chunk_buffer,
                        message_buffer, response, backlog, clients, history>>
<1> DEFINE header == Header(Length(request[served]))
<1>1. TypeOK /\ pc = "size" /\ served \in Clients /\ Exchange(served)
  BY Serving DEF ReadSize, Inv
<1>2. inbox[served] # <<>>
  BY EmptySeq DEF ReadSize, Deliveries, HeaderBytes
<1>3. /\ At(served, "sized", header, <<>>) /\ served \notin performed
      /\ request[served] \in Commands \union {Empty}
  BY <1>1, <1>2 DEF Exchange, Unread, Completed, At, TypeOK
<1>4. /\ header \in Seq(Bytes) /\ Len(header) = 4
      /\ Value(header) = Length(request[served])
  BY <1>3, LengthType, LengthRoundTrip DEF HeaderBytes
<1>5. inbox[served] = header
  BY <1>3 DEF At
<1> HIDE DEF header
<1>6. Deliveries(HeaderBytes, WholeHeaders) = {4}
  BY <1>4, <1>5, ServerAssumption DEF Deliveries, HeaderBytes
<1>7. Take(4) = header /\ (Consume(4) => inbox' = [inbox EXCEPT ![served] = <<>>])
  <2>1. SubSeq(header, 1, 4) = header
    BY <1>4, SubSeqFull
  <2>2. SubSeq(header, 5, Len(header)) = <<>>
    BY <1>4, SubSeqEmpty
  <2>3. QED
    <3>1. Take(4) = header
      BY <1>5, <2>1 DEF Take
    <3>2. 4 + 1 = 5
      OBVIOUS
    <3>3. QED
      BY <1>5, <2>2, <3>1, <3>2 DEF Consume
<1>8. Overwritten(raw_command_size, header) = header
  BY <1>1, <1>4 DEF Overwritten, TypeOK, HeaderBytes
<1>9. ~SendFails
  BY <1>3, SendSucceeds
<1>10. cur_size \in Nat
  BY <1>1 DEF TypeOK
<1>11. /\ Send("ack") /\ Consume(4) /\ message_size' = Value(header)
       /\ IF Value(header) = 0
          THEN pc' = "size" /\ raw_command_size' = Zeros(HeaderBytes) /\ cur_size' = cur_size + 4
          ELSE pc' = "text" /\ raw_command_size' = header /\ cur_size' = 0
       /\ UNCHANGED <<up, served, transfer_progressive, chunk_buffer,
                      message_buffer, response, backlog, clients, history>>
  <2>1. PICK n \in Deliveries(HeaderBytes, WholeHeaders) : ReadSize!2!(n)
    BY DEF ReadSize
  <2>2. n = 4
    BY <1>6
  <2>3. ReadSize!2!(4)
    BY <2>1, <2>2
  <2>4. ~(cur_size + 4 < HeaderBytes)
    BY <1>10 DEF HeaderBytes
  <2> DEFINE raw == Overwritten(raw_command_size, Take(4))
  <2>5. raw = header
    BY <1>7, <1>8
  <2> HIDE DEF raw
  <2>6. /\ Send("ack") /\ Consume(4) /\ message_size' = Value(raw)
        /\ IF Value(raw) = 0
           THEN pc' = "size" /\ raw_command_size' = Zeros(HeaderBytes) /\ cur_size' = cur_size + 4
           ELSE pc' = "text" /\ raw_command_size' = raw /\ cur_size' = 0
        /\ UNCHANGED <<up, served, transfer_progressive, chunk_buffer,
                       message_buffer, response, backlog, clients, history>>
    BY <1>9, <2>3, <2>4 DEF raw
  <2>7. QED
    BY <2>5, <2>6
<1>12. (Length(request[served]) = 0) <=> (request[served] = Empty)
  BY <1>3, LengthType
<1>13. header \in [1 .. HeaderBytes -> Bytes] /\ Zeros(HeaderBytes) \in [1 .. HeaderBytes -> Bytes]
  <2>1. header \in [1 .. HeaderBytes -> Bytes]
    BY <1>4, LenProperties DEF HeaderBytes
  <2>2. QED
    BY <2>1 DEF Zeros, Bytes, HeaderBytes
<1>14. QED
  BY <1>1, <1>3, <1>4, <1>7, <1>10, <1>11, <1>12, <1>13 DEF header

LEMMA ReadSizeInv ==
  ASSUME Inv, WholeHeaders, ReadSize
  PROVE  Inv'
<1>0. PICK c \in Clients : c = served
  BY ReadSizeEffect
<1>1. /\ pc = "size" /\ c \notin performed
      /\ request[c] \in Commands \union {Empty}
      /\ At(c, "sized", Header(Length(request[c])), <<>>)
      /\ Send("ack")
      /\ inbox' = [inbox EXCEPT ![c] = <<>>]
      /\ message_size' = Length(request[c])
      /\ cur_size' \in Nat /\ raw_command_size' \in [1 .. HeaderBytes -> Bytes]
      /\ IF request[c] = Empty THEN pc' = "size" ELSE pc' = "text"
      /\ UNCHANGED <<up, served, transfer_progressive, chunk_buffer,
                     message_buffer, response, backlog, clients, history>>
  BY <1>0, ReadSizeEffect
<1>2. TypeOK /\ Quiet
  BY DEF Inv
<1>3. transfer_progressive' = 0 /\ performed' \subseteq {served}
  BY <1>1, <1>2 DEF Quiet, history
<1>4. inbox' \in [Clients -> Seq(Bytes)] /\ inbox'[c] = <<>>
  BY <1>1, <1>2, EmptySeq DEF TypeOK
<1>5. /\ At(c, "sized", <<>>, <<"ack">>)'
      /\ outbox' \in [Clients -> Seq(Messages)]
      /\ connection' \in [Clients -> {"none", "open", "closed", "reset"}]
      /\ \A d \in Clients \ {c} : connection'[d] = connection[d] /\ outbox'[d] = outbox[d]
  <2>1. "ack" \in Messages /\ client' = client
    BY <1>1 DEF Messages, clients
  <2>2. \A new : inbox'[c] = new => At(c, "sized", new, <<"ack">>)'
    BY <1>0, <1>1, <1>2, <2>1, SendEffect
  <2>3. QED
    BY <1>0, <1>1, <1>2, <1>4, <2>1, <2>2, SendEffect
<1>6. Length(request[c]) \in Nat /\ (Length(request[c]) = 0 <=> request[c] = Empty)
  BY <1>1, LengthType
<1>7. TypeOK'
  <2>1. pc' = "text" => transfer_progressive' + ChunkSize <= BufferSize
    <3> SUFFICES ASSUME request[c] \in Commands
                 PROVE  transfer_progressive' + ChunkSize <= BufferSize
      BY <1>1
    <3>1. Len(Encoding[request[c]]) \in Nat /\ Len(Encoding[request[c]]) + ChunkSize <= BufferSize
      BY ServerAssumption, EmptySeq
    <3>2. QED
      BY <1>3, <3>1, ServerAssumption
  <2>2. pc' \in {"size", "text"} /\ served' = served /\ served # None /\ message_size' \in Nat
    BY <1>0, <1>1, <1>6, ServerAssumption
  <2>3. QED
    BY <1>0, <1>1, <1>2, <1>4, <1>5, <2>1, <2>2 DEF TypeOK, clients, history
<1>8. Others(c)
  BY <1>1, <1>2, <1>5 DEF Others, TypeOK, clients, history
<1>9. Exchange(c)'
  <2>1. CASE request[c] = Empty
    <3>1. Completed(c)'
      BY <1>1, <1>5, <2>1 DEF Completed, clients, history
    <3>2. QED
      BY <1>1, <2>1, <3>1 DEF Exchange
  <2>2. CASE request[c] # Empty
    <3>1. request[c] \in Commands /\ request' = request
      BY <1>1, <2>2 DEF clients
    <3>2. message_size' = Len(Encoding[request'[c]]) /\ message_size' \in Nat
      BY <1>1, <1>6, <2>2, <3>1 DEF Length
    <3>3. Receiving(c)'
      BY <1>1, <1>3, <3>1, <3>2 DEF Receiving, history
    <3>4. Arriving(c)'
      BY <1>3, <1>5 DEF Arriving
    <3>5. QED
      BY <1>1, <2>2, <3>3, <3>4 DEF Exchange
  <2>3. QED
    BY <2>1, <2>2
<1>10. QED
  BY <1>0, <1>1, <1>3, <1>7, <1>8, <1>9, ServeInv

\* A read of the text continues it in message_buffer, and leaves the rest.
LEMMA ReadTextEffect ==
  ASSUME Inv, ReadText, NEW c \in Clients, c = served
  PROVE  /\ pc = "text" /\ Receiving(c) /\ At(c, "sent", inbox[c], <<>>)
         /\ transfer_progressive' \in 1 .. message_size
         /\ pc' = IF transfer_progressive' < message_size THEN "text" ELSE "handle"
         /\ inbox' = [inbox EXCEPT ![c] =
                        SubSeq(Encoding[request[c]], transfer_progressive' + 1, message_size)]
         /\ \A i \in 1 .. transfer_progressive' : message_buffer'[i] = Encoding[request[c]][i]
         /\ chunk_buffer' \in [1 .. ChunkSize -> Bytes]
         /\ message_buffer' \in [1 .. BufferSize -> Bytes]
         /\ cur_size' \in Nat
         /\ UNCHANGED <<up, served, raw_command_size, message_size, response,
                        connection, backlog, outbox, clients, history>>
<1> DEFINE text == Encoding[request[c]]
<1>1. TypeOK /\ pc = "text" /\ Exchange(c)
  BY Serving DEF ReadText, Inv
<1>2. PICK n \in Deliveries(ChunkSize, FALSE) : ReadText!2!(n)
  BY DEF ReadText
<1>3. n \in 1 .. ChunkSize /\ n <= Len(inbox[c]) /\ Len(inbox[c]) \in Nat /\ inbox[c] # <<>>
  BY <1>1, <1>2, ServerAssumption, LenProperties, EmptySeq DEF Deliveries, TypeOK
<1>4. /\ Receiving(c) /\ transfer_progressive < message_size
      /\ At(c, "sent", SubSeq(text, transfer_progressive + 1, message_size), <<>>)
  BY <1>1, <1>3 DEF Exchange, Arriving, At
<1>5. /\ request[c] \in Commands /\ message_size = Len(text)
      /\ text \in Seq(Bytes) /\ Len(text) \in Nat /\ Len(text) + ChunkSize <= BufferSize
      /\ \A i \in 1 .. transfer_progressive : message_buffer[i] = text[i]
  BY <1>4, ServerAssumption, EmptySeq DEF Receiving
<1>6. inbox[c] = SubSeq(text, transfer_progressive + 1, message_size)
  BY <1>4 DEF At
<1> HIDE DEF text
<1>7. transfer_progressive \in Nat /\ ChunkSize \in Nat /\ BufferSize \in Nat
  BY <1>1, ServerAssumption DEF TypeOK
<1>8. /\ Len(inbox[c]) = message_size - transfer_progressive
      /\ \A i \in 1 .. Len(inbox[c]) : inbox[c][i] = text[transfer_progressive + i]
  <2>1. \A i \in transfer_progressive + 1 .. message_size : text[i] \in Bytes
    BY <1>5, <1>7, ElementOfSeq
  <2>2. \A i \in 1 .. message_size - (transfer_progressive + 1) + 1 :
            SubSeq(text, transfer_progressive + 1, message_size)[i]
                = text[transfer_progressive + 1 + i - 1]
    BY <1>5, <1>7, <2>1, SubSeqProperties
  <2>3. Len(SubSeq(text, transfer_progressive + 1, message_size))
          = message_size - (transfer_progressive + 1) + 1
    BY <1>4, <1>5, <1>7, <2>1, SubSeqProperties
  <2>4. QED
    BY <1>5, <1>6, <1>7, <2>2, <2>3
<1>9. transfer_progressive' = transfer_progressive + n /\ cur_size' = n
  BY <1>2
<1>10. transfer_progressive' \in 1 .. message_size
  BY <1>3, <1>5, <1>7, <1>8, <1>9
<1>11. /\ Take(n) \in Seq(Bytes) /\ Len(Take(n)) = n
       /\ \A i \in 1 .. n : Take(n)[i] = text[transfer_progressive + i]
  <2>1. \A i \in 1 .. n : inbox[c][i] \in Bytes
    BY <1>1, <1>3, ElementOfSeq DEF TypeOK
  <2>2. /\ SubSeq(inbox[c], 1, n) \in Seq(Bytes) /\ Len(SubSeq(inbox[c], 1, n)) = n
        /\ \A i \in 1 .. n : SubSeq(inbox[c], 1, n)[i] = inbox[c][i]
    BY <1>3, <2>1, SubSeqProperties
  <2>3. QED
    BY <1>3, <1>8, <2>2 DEF Take
<1>12. SubSeq(inbox[c], n + 1, Len(inbox[c])) = SubSeq(text, transfer_progressive' + 1, message_size)
  <2>1. CASE n = Len(inbox[c])
    <3>1. transfer_progressive' = message_size
      BY <1>5, <1>7, <1>8, <1>9, <2>1
    <3>2. SubSeq(inbox[c], n + 1, Len(inbox[c])) = <<>>
      BY <1>3, <2>1, SubSeqEmpty
    <3>3. SubSeq(text, transfer_progressive' + 1, message_size) = <<>>
      BY <1>5, <3>1, SubSeqEmpty
    <3>4. QED
      BY <3>2, <3>3
  <2>2. CASE n # Len(inbox[c])
    <3> DEFINE i == transfer_progressive + 1  j == message_size  k == Len(inbox[c])
    <3>1. /\ i \in 1 .. Len(text) /\ j \in 1 .. Len(text) /\ k = j - i + 1
          /\ n + 1 \in 1 .. j - i + 1 /\ k \in 1 .. j - i + 1
      BY <1>3, <1>4, <1>5, <1>7, <1>8, <2>2
    <3> HIDE DEF i, j, k
    <3>2. SubSeq(SubSeq(text, i, j), n + 1, k) = SubSeq(text, i + (n + 1) - 1, i + k - 1)
      BY <1>3, <1>5, <3>1, SubSeqOfSubSeq
    <3>3. i + (n + 1) - 1 = transfer_progressive' + 1 /\ i + k - 1 = message_size
      BY <1>3, <1>5, <1>7, <1>9, <3>1 DEF i, j
    <3>4. SubSeq(inbox[c], n + 1, k) = SubSeq(SubSeq(text, i, j), n + 1, k)
      BY <1>6 DEF i, j
    <3>5. SubSeq(inbox[c], n + 1, k) = SubSeq(text, transfer_progressive' + 1, message_size)
      BY <3>2, <3>3, <3>4
    <3>6. QED
      BY <3>5 DEF k
  <2>3. QED
    BY <2>1, <2>2
<1>13. inbox' = [inbox EXCEPT ![c] = SubSeq(inbox[c], n + 1, Len(inbox[c]))]
  BY <1>2 DEF Consume
<1>14. /\ chunk_buffer' \in [1 .. ChunkSize -> Bytes]
       /\ \A i \in 1 .. n : chunk_buffer'[i] = text[transfer_progressive + i]
  <2>1. chunk_buffer' = Overwritten(chunk_buffer, Take(n)) /\ chunk_buffer \in [1 .. ChunkSize -> Bytes]
    BY <1>1, <1>2 DEF TypeOK
  <2> DEFINE part == Take(n)
  <2>2. part \in Seq(Bytes)
    BY <1>11
  <2> HIDE DEF part
  <2>3. /\ Overwritten(chunk_buffer, part) \in [1 .. ChunkSize -> Bytes]
        /\ \A i \in 1 .. ChunkSize : i <= Len(part) => Overwritten(chunk_buffer, part)[i] = part[i]
    BY <1>7, <2>1, <2>2, OverwrittenType
  <2>4. chunk_buffer' = Overwritten(chunk_buffer, part)
    BY <2>1 DEF part
  <2>5. Len(part) = n /\ \A i \in 1 .. n : part[i] = text[transfer_progressive + i]
    BY <1>11 DEF part
  <2>6. chunk_buffer' \in [1 .. ChunkSize -> Bytes]
    BY <2>3, <2>4
  <2>7. ASSUME NEW i \in 1 .. n PROVE chunk_buffer'[i] = text[transfer_progressive + i]
    <3>1. i \in 1 .. ChunkSize /\ i <= Len(part)
      BY <1>3, <1>7, <2>5
    <3>2. QED
      BY <2>3, <2>4, <2>5, <3>1
  <2>8. QED
    BY <2>6, <2>7
<1>15. /\ message_buffer' \in [1 .. BufferSize -> Bytes]
       /\ \A i \in 1 .. transfer_progressive' : message_buffer'[i] = text[i]
  <2>1. /\ message_buffer' = CopyAt(message_buffer, transfer_progressive, chunk_buffer')
        /\ message_buffer \in [1 .. BufferSize -> Bytes]
    BY <1>1, <1>2 DEF TypeOK
  <2>2. PICK chunk \in [1 .. ChunkSize -> Bytes] : chunk = chunk_buffer'
    BY <1>14
  <2> DEFINE new == CopyAt(message_buffer, transfer_progressive, chunk)
  <2>3. /\ new \in [1 .. BufferSize -> Bytes]
        /\ \A i \in 1 .. BufferSize : i <= transfer_progressive => new[i] = message_buffer[i]
        /\ \A i \in 1 .. BufferSize : i - transfer_progressive \in 1 .. ChunkSize
              => new[i] = chunk[i - transfer_progressive]
    BY <1>7, <2>1, <2>2, CopyAtType
  <2>4. message_buffer' = new
    BY <2>1, <2>2
  <2> HIDE DEF new
  <2>5. ASSUME NEW i \in 1 .. transfer_progressive' PROVE message_buffer'[i] = text[i]
    <3>1. i \in 1 .. BufferSize
      BY <1>5, <1>7, <1>10
    <3>2. CASE i <= transfer_progressive
      BY <1>5, <2>3, <2>4, <3>1, <3>2
    <3>3. CASE i > transfer_progressive
      <4> DEFINE k == i - transfer_progressive
      <4>1. k \in 1 .. n /\ k \in 1 .. ChunkSize /\ transfer_progressive + k = i
        BY <1>3, <1>7, <1>9, <3>3
      <4>2. message_buffer'[i] = chunk_buffer'[k]
        BY <2>2, <2>3, <2>4, <3>1, <4>1
      <4> HIDE DEF k
      <4>3. QED
        BY <1>14, <4>1, <4>2
    <3>4. QED
      BY <1>7, <3>2, <3>3
  <2>6. QED
    BY <2>3, <2>4, <2>5
<1>16. /\ pc' = IF transfer_progressive' < message_size THEN "text" ELSE "handle"
       /\ UNCHANGED <<up, served, raw_command_size, message_size, response,
                      connection, backlog, outbox, clients, history>>
  BY DEF ReadText
<1>17. At(c, "sent", inbox[c], <<>>)
  BY <1>4, <1>6
<1>18. inbox' = [inbox EXCEPT ![c] = SubSeq(text, transfer_progressive' + 1, message_size)]
  BY <1>12, <1>13
<1>19. cur_size' \in Nat
  BY <1>3, <1>9
<1>20. QED
  BY <1>1, <1>4, <1>10, <1>14, <1>15, <1>16, <1>17, <1>18, <1>19 DEF text

LEMMA ReadTextInv ==
  ASSUME Inv, ReadText
  PROVE  Inv'
<1>0. PICK c \in Clients : c = served
  BY Serving DEF ReadText
<1>1. /\ pc = "text" /\ Receiving(c) /\ At(c, "sent", inbox[c], <<>>)
      /\ transfer_progressive' \in 1 .. message_size
      /\ pc' = IF transfer_progressive' < message_size THEN "text" ELSE "handle"
      /\ inbox' = [inbox EXCEPT ![c] =
                     SubSeq(Encoding[request[c]], transfer_progressive' + 1, message_size)]
      /\ \A i \in 1 .. transfer_progressive' : message_buffer'[i] = Encoding[request[c]][i]
      /\ chunk_buffer' \in [1 .. ChunkSize -> Bytes]
      /\ message_buffer' \in [1 .. BufferSize -> Bytes]
      /\ cur_size' \in Nat
      /\ UNCHANGED <<up, served, raw_command_size, message_size, response,
                     connection, backlog, outbox, clients, history>>
  BY <1>0, ReadTextEffect
<1> DEFINE text == Encoding[request[c]]
<1>2. /\ TypeOK /\ performed' \subseteq {served}
      /\ transfer_progressive' \in Nat /\ message_size \in Nat
      /\ request[c] \in Commands /\ message_size = Len(text) /\ c \notin performed
  <2>1. TypeOK /\ message_size \in Nat
    BY DEF Inv, TypeOK
  <2>2. performed' \subseteq {served}
    BY <1>1 DEF Inv, Quiet, history
  <2>3. transfer_progressive' \in Nat
    BY <1>1, <2>1
  <2>4. request[c] \in Commands /\ message_size = Len(text) /\ c \notin performed
    BY <1>1 DEF Receiving
  <2>5. QED
    BY <2>1, <2>2, <2>3, <2>4
<1>3. /\ text \in Seq(Bytes) /\ Len(text) + ChunkSize <= BufferSize
      /\ ChunkSize \in Nat /\ BufferSize \in Nat
  BY <1>2, ServerAssumption
<1> HIDE DEF text
<1>4. SubSeq(text, transfer_progressive' + 1, message_size) \in Seq(Bytes)
  <2>1. message_size = Len(text) /\ transfer_progressive' \in Nat
    BY <1>2
  <2>2. QED
    BY <1>3, <2>1, RestType
<1>5. inbox' = [inbox EXCEPT ![c] = SubSeq(text, transfer_progressive' + 1, message_size)]
  BY <1>1 DEF text
<1>6. TypeOK'
  <2>1. transfer_progressive' + ChunkSize <= BufferSize
    BY <1>1, <1>2, <1>3
  <2>2. transfer_progressive' \in 0 .. BufferSize
    <3>1. PICK n \in Nat : n = transfer_progressive'
      BY <1>2
    <3>2. n + ChunkSize <= BufferSize
      BY <2>1, <3>1
    <3>3. n \in 0 .. BufferSize
      BY <1>3, <3>2
    <3>4. QED
      BY <3>1, <3>3
  <2>3. pc' \in {"text", "handle"} /\ served # None
    BY <1>0, <1>1, ServerAssumption
  <2>4. inbox' \in [Clients -> Seq(Bytes)]
    BY <1>2, <1>4, <1>5 DEF TypeOK
  <2>5. QED
    BY <1>1, <1>2, <2>1, <2>2, <2>3, <2>4 DEF TypeOK, clients, history
<1>7. Others(c)
  BY <1>1, <1>2 DEF Others, TypeOK, clients, history
<1>8. Receiving(c)'
  <2>1. request'[c] = request[c] /\ text = Encoding[request'[c]] /\ message_size' = message_size
        /\ performed' = performed
    BY <1>1 DEF clients, history, text
  <2>2. \A i \in 1 .. transfer_progressive' : message_buffer'[i] = text[i]
    BY <1>1 DEF text
  <2>3. transfer_progressive' <= message_size
    BY <1>1
  <2> HIDE DEF text
  <2>4. QED
    BY <1>2, <2>1, <2>2, <2>3 DEF Receiving
<1>9. inbox'[c] = SubSeq(text, transfer_progressive' + 1, message_size)
  BY <1>2, <1>5 DEF TypeOK
<1>10. \A new : inbox'[c] = new => At(c, "sent", new, <<>>)'
  BY <1>1 DEF At, clients
<1>11. CASE transfer_progressive' < message_size
  <2>1. pc' = "text" /\ text = Encoding[request'[c]] /\ message_size' = message_size
    BY <1>1, <1>11 DEF text, clients
  <2>2. Arriving(c)'
    BY <1>9, <1>10, <1>11, <2>1 DEF Arriving
  <2>3. Exchange(c)'
    BY <1>8, <2>1, <2>2 DEF Exchange
  <2>4. QED
    BY <1>0, <1>1, <1>2, <1>6, <1>7, <2>1, <2>3, ServeInv
<1>12. CASE ~(transfer_progressive' < message_size)
  <2>1. pc' = "handle" /\ transfer_progressive' = message_size /\ message_size' = message_size
    BY <1>1, <1>2, <1>12
  <2>2. SubSeq(text, transfer_progressive' + 1, message_size) = <<>>
    BY <1>2, <2>1, SubSeqEmpty
  <2>3. Exchange(c)'
    BY <1>8, <1>9, <1>10, <2>1, <2>2 DEF Exchange
  <2>4. QED
    BY <1>0, <1>1, <1>2, <1>6, <1>7, <2>1, <2>3, ServeInv
<1>13. QED
  BY <1>11, <1>12

\* The message that is handled is the text of what the client asked for.
LEMMA HandleEffect ==
  ASSUME Inv, Handle, NEW c \in Clients, c = served
  PROVE  /\ pc = "handle" /\ performed = {} /\ request[c] \in Commands
         /\ At(c, "sent", <<>>, <<>>) /\ ~SendFails
         /\ journal' = Service!Journal(request[c])
         /\ Respond(request[c]) \/ (request[c] \in Fatal \ Rejected /\ Die)
<1> DEFINE text == Encoding[request[c]]
<1>1. TypeOK /\ Quiet /\ pc = "handle" /\ Exchange(c)
  BY Serving DEF Handle, Inv
<1>2. /\ request[c] \in Commands /\ c \notin performed
      /\ message_size = Len(text) /\ message_size = transfer_progressive
      /\ \A i \in 1 .. message_size : message_buffer[i] = text[i]
      /\ At(c, "sent", <<>>, <<>>)
  BY <1>1 DEF Exchange, Receiving
<1>3. text \in Seq(Bytes) /\ message_size \in Nat /\ message_size <= BufferSize
  <2>1. /\ text \in Seq(Bytes) /\ Len(text) + ChunkSize <= BufferSize
        /\ ChunkSize \in Nat /\ BufferSize \in Nat
    BY <1>2, ServerAssumption
  <2> HIDE DEF text
  <2>2. Len(text) \in Nat
    BY <2>1, LenProperties
  <2>3. QED
    BY <1>2, <2>1, <2>2
<1>4. Received = text
  <2> HIDE DEF text
  <2>1. \A i \in 1 .. message_size : message_buffer[i] \in Bytes
    BY <1>2, <1>3, ElementOfSeq
  <2>2. /\ SubSeq(message_buffer, 1, message_size) \in Seq(Bytes)
        /\ Len(SubSeq(message_buffer, 1, message_size)) = message_size
        /\ \A i \in 1 .. message_size :
              SubSeq(message_buffer, 1, message_size)[i] = message_buffer[i]
    BY <1>3, <2>1, SubSeqProperties
  <2>3. QED
    BY <1>2, <1>3, <2>2, SeqEqual DEF Received
<1>5. ~SendFails
  BY <1>2, SendSucceeds
<1>6. PICK m \in Commands :
         /\ Received = Encoding[m]
         /\ journal' = IF m \in Rejected THEN journal ELSE Append(journal, m)
         /\ \/ Respond(m)
            \/ (SendFails \/ m \in Fatal \ Rejected) /\ Die
  BY <1>2, <1>4 DEF Handle
<1>7. m = request[c]
  <2>1. Encoding[m] = Encoding[request[c]]
    BY <1>4, <1>6
  <2>2. \A k, n \in Commands : Encoding[k] = Encoding[n] => k = n
    BY ServerAssumption
  <2>3. QED
    BY <1>2, <1>6, <2>1, <2>2
<1>8. performed = {}
  BY <1>1, <1>2 DEF Quiet
<1>9. journal' = Service!Journal(request[c])
  BY <1>6, <1>7 DEF Service!Journal
<1>10. Respond(request[c]) \/ (request[c] \in Fatal \ Rejected /\ Die)
  BY <1>5, <1>6, <1>7
<1>11. QED
  BY <1>1, <1>2, <1>5, <1>8, <1>9, <1>10

LEMMA HandleInv ==
  ASSUME Inv, Handle
  PROVE  Inv'
<1>0. PICK c \in Clients : c = served
  BY Serving DEF Handle
<1>1. /\ pc = "handle" /\ performed = {} /\ request[c] \in Commands
      /\ At(c, "sent", <<>>, <<>>)
      /\ journal' = Service!Journal(request[c])
      /\ Respond(request[c]) \/ (request[c] \in Fatal \ Rejected /\ Die)
  BY <1>0, HandleEffect
<1>2. TypeOK
  BY DEF Inv
<1>3. journal' \in Seq(Commands \ Rejected)
  BY <1>1, <1>2, AppendProperties DEF Service!Journal, TypeOK
<1>4. CASE Die
  BY <1>3, <1>4, DieInv
<1>5. CASE Respond(request[c])
  <2>1. /\ response' = Service!Result(request[c])
        /\ performed' = performed \union {served}
        /\ Send("size")
        /\ pc' = "wait_ack"
        /\ UNCHANGED <<up, served, cur_size, raw_command_size, message_size,
                       transfer_progressive, chunk_buffer, message_buffer,
                       backlog, inbox, clients>>
    BY <1>5 DEF Respond
  <2>2. "size" \in Messages /\ client' = client
    BY <2>1 DEF Messages, clients
  <2>3. \A new : inbox'[c] = new => At(c, "sent", new, <<"size">>)'
    BY <1>0, <1>1, <1>2, <2>1, <2>2, SendEffect
  <2>4. /\ outbox' \in [Clients -> Seq(Messages)]
        /\ connection' \in [Clients -> {"none", "open", "closed", "reset"}]
        /\ \A d \in Clients \ {c} : connection'[d] = connection[d] /\ outbox'[d] = outbox[d]
    BY <1>0, <1>1, <1>2, <2>1, <2>2, SendEffect
  <2>5. inbox'[c] = <<>>
    BY <1>1, <2>1 DEF At
  <2>6. response' \in Messages /\ performed' = {served}
    BY <1>1, <2>1 DEF Messages
  <2>7. TypeOK'
    BY <1>0, <1>2, <1>3, <2>1, <2>4, <2>6, ServerAssumption DEF TypeOK, clients
  <2>8. Others(c)
    BY <1>0, <2>1, <2>4 DEF Others, clients
  <2>9. Exchange(c)'
    <3>1. request'[c] = request[c] /\ c \in performed'
      BY <1>0, <2>1 DEF clients
    <3>2. Answering(c)'
      BY <1>1, <2>1, <2>3, <2>5, <3>1 DEF Answering
    <3>3. QED
      BY <2>1, <3>2 DEF Exchange
  <2>10. QED
    BY <1>0, <1>1, <2>1, <2>6, <2>7, <2>8, <2>9, ServeInv
<1>6. QED
  BY <1>1, <1>4, <1>5

\* The client has answered the length of its response when the driver goes on.
LEMMA WaitAckEffect ==
  ASSUME Inv, WaitAck, NEW c \in Clients, c = served
  PROVE  \/ /\ pc = "wait_ack" /\ Answering(c) /\ At(c, "answered", <<Ack>>, <<>>)
            /\ Send(response) /\ ReceiveAnew
            /\ inbox' = [inbox EXCEPT ![c] = <<>>]
            /\ UNCHANGED <<up, served, chunk_buffer, message_buffer, backlog,
                           clients, history>>
         \/ /\ SendFails /\ Die /\ UNCHANGED journal
<1>1. TypeOK /\ pc = "wait_ack" /\ Exchange(c) /\ inbox[c] # <<>>
  BY Serving DEF WaitAck, Inv
<1>2. Answering(c) /\ At(c, "answered", <<Ack>>, <<>>)
  BY <1>1 DEF Exchange, Answering, At
<1>3. inbox[c] = <<Ack>>
  BY <1>2 DEF At
<1>4. SubSeq(inbox[c], 2, Len(inbox[c])) = <<>>
  BY <1>3, SubSeqEmpty
<1>5. Consume(1) => inbox' = [inbox EXCEPT ![c] = <<>>]
  <2>1. 1 + 1 = 2
    OBVIOUS
  <2>2. QED
    BY <1>4, <2>1 DEF Consume
<1>6. QED
  BY <1>1, <1>2, <1>5 DEF WaitAck

LEMMA WaitAckInv ==
  ASSUME Inv, WaitAck
  PROVE  Inv'
<1>0. PICK c \in Clients : c = served
  BY Serving DEF WaitAck
<1>1. TypeOK /\ Quiet
  BY DEF Inv
<1>2. CASE Die /\ UNCHANGED journal
  BY <1>1, <1>2, DieInv DEF TypeOK
<1>3. CASE /\ pc = "wait_ack" /\ Answering(c) /\ At(c, "answered", <<Ack>>, <<>>)
           /\ Send(response) /\ ReceiveAnew
           /\ inbox' = [inbox EXCEPT ![c] = <<>>]
           /\ UNCHANGED <<up, served, chunk_buffer, message_buffer, backlog,
                          clients, history>>
  <2>1. /\ response \in Messages /\ request[c] \in Commands /\ c \in performed
        /\ response = Service!Result(request[c]) /\ client' = client
    BY <1>3 DEF Answering, Messages, clients
  <2>0. PICK r \in Messages : r = response
    BY <2>1
  <2>2. \A new : inbox'[c] = new => At(c, "answered", new, <<r>>)'
    BY <1>0, <1>1, <1>3, <2>0, <2>1, SendEffect
  <2>3. /\ outbox' \in [Clients -> Seq(Messages)]
        /\ connection' \in [Clients -> {"none", "open", "closed", "reset"}]
        /\ \A d \in Clients \ {c} : connection'[d] = connection[d] /\ outbox'[d] = outbox[d]
    BY <1>0, <1>1, <1>3, <2>1, SendEffect
  <2>4. inbox' \in [Clients -> Seq(Bytes)] /\ inbox'[c] = <<>>
    BY <1>1, <1>3, EmptySeq DEF TypeOK
  <2>5. /\ pc' = "size" /\ cur_size' = 0 /\ message_size' = 0 /\ transfer_progressive' = 0
        /\ response' = None /\ raw_command_size' \in [1 .. HeaderBytes -> Bytes]
    BY <1>3 DEF ReceiveAnew, Zeros, Bytes, HeaderBytes
  <2>6. TypeOK'
    <3>1. /\ transfer_progressive' \in 0 .. BufferSize /\ pc' = "size" /\ served # None
          /\ cur_size' \in Nat /\ message_size' \in Nat
      BY <1>0, <2>5, ServerAssumption
    <3>2. QED
      BY <1>0, <1>1, <1>3, <2>3, <2>4, <2>5, <3>1 DEF TypeOK, clients, history
  <2>7. Others(c)
    BY <1>1, <1>3, <2>3 DEF Others, TypeOK, clients, history
  <2>8. Exchange(c)'
    <3>1. request'[c] = request[c] /\ c \in performed'
      BY <1>3, <2>1 DEF clients, history
    <3>2. Completed(c)'
      BY <2>0, <2>1, <2>2, <2>4, <3>1 DEF Completed
    <3>3. QED
      BY <2>5, <3>2 DEF Exchange
  <2>9. performed' \subseteq {served}
    BY <1>1, <1>3 DEF Quiet, history
  <2>10. QED
    BY <1>0, <1>3, <2>5, <2>6, <2>7, <2>8, <2>9, ServeInv
<1>4. QED
  BY <1>0, <1>2, <1>3, WaitAckEffect

\* A connection that has ended under the driver is that of a client that left,
\* within an exchange unless it was closed between two commands.
LEMMA EndedConnection ==
  ASSUME Inv, NEW c \in Clients, c = served, connection[c] \in {"closed", "reset"}
  PROVE  /\ client[c] = "away" /\ outbox[c] = <<>>
         /\ connection[c] = "reset" \/ pc # "size" => request[c] # None
         /\ request[c] = None => c \notin performed
<1>1. TypeOK /\ Exchange(c) /\ pc \in {"size", "text", "handle", "wait_ack"}
  BY ServerAssumption DEF Inv, Place, TypeOK
<1>2. CASE pc = "size"
  BY <1>1, <1>2, ServerAssumption DEF Exchange, Unread, Completed, At
<1>3. CASE pc = "text"
  BY <1>1, <1>3, ServerAssumption DEF Exchange, Receiving, Arriving, At
<1>4. CASE pc = "handle"
  BY <1>1, <1>4, ServerAssumption DEF Exchange, Receiving, At
<1>5. CASE pc = "wait_ack"
  BY <1>1, <1>5, ServerAssumption DEF Exchange, Answering, At
<1>6. QED
  BY <1>1, <1>2, <1>3, <1>4, <1>5

LEMMA ReadFailsInv ==
  ASSUME Inv, ReadFails
  PROVE  Inv'
  BY DieInv DEF ReadFails, Inv, TypeOK

LEMMA DisconnectInv ==
  ASSUME Inv, Disconnect
  PROVE  Inv'
<1>0. PICK c \in Clients : c = served
  BY Serving DEF Disconnect
<1>1. /\ pc = "size" /\ connection[c] \in {"closed", "reset"} /\ inbox[c] = <<>>
      /\ pc' = "accept" /\ served' = None
      /\ connection' = [connection EXCEPT ![c] = "none"]
      /\ outbox' = [outbox EXCEPT ![c] = <<>>]
      /\ request' = [request EXCEPT ![c] = None]
      /\ performed' = performed \ {c}
      /\ UNCHANGED <<up, cur_size, raw_command_size, message_size, transfer_progressive,
                     chunk_buffer, message_buffer, response, backlog, inbox,
                     client, answer, asked, journal>>
      /\ TypeOK /\ Backlog /\ Quiet /\ up
  BY <1>0, Serving DEF Disconnect, EndOfConnection, Inv
<1>2. client[c] = "away" /\ ~Queued(c)
  BY <1>0, <1>1, EndedConnection, Serving
<1>3. TypeOK'
  <2>1. outbox' \in [Clients -> Seq(Messages)]
    BY <1>1, EmptySeq DEF TypeOK
  <2>2. QED
    BY <1>1, <2>1, ServerAssumption DEF TypeOK
<1>4. Backlog'
  <2>1. \A i \in 1 .. Len(backlog) : backlog[i] \in Clients
    BY <1>1, ElementOfSeq DEF TypeOK
  <2>2. \A i \in 1 .. Len(backlog) : backlog[i] # None
    BY <2>1, ServerAssumption
  <2>3. QED
    BY <1>1, <2>2 DEF Backlog, Queued
<1>5. Quiet'
  BY <1>0, <1>1 DEF Quiet
<1>6. Place(c)'
  BY <1>0, <1>1, <1>2, ServerAssumption DEF Place, Unused, Queued, TypeOK
<1>7. ASSUME NEW d \in Clients \ {c} PROVE Place(d)'
  <2>1. Place(d) /\ d # served /\ d # served'
    BY <1>0, <1>1, ServerAssumption DEF Inv
  <2>2. /\ client'[d] = client[d] /\ request'[d] = request[d] /\ connection'[d] = connection[d]
        /\ inbox'[d] = inbox[d] /\ outbox'[d] = outbox[d]
    BY <1>1 DEF TypeOK
  <2>3. Length(request[d])' = Length(request[d])
    BY <2>2 DEF Length
  <2>4. /\ (Unused(d)' <=> Unused(d)) /\ (Unread(d)' <=> Unread(d)) /\ (Queued(d)' <=> Queued(d))
    BY <1>1, <2>2, <2>3 DEF Unused, Unread, At, Queued
  <2>5. QED
    BY <2>1, <2>4 DEF Place
<1>8. QED
  BY <1>3, <1>4, <1>5, <1>6, <1>7 DEF Inv

LEMMA AcceptInv ==
  ASSUME Inv, Accept
  PROVE  Inv'
<1>1. /\ pc = "accept" /\ served = None /\ backlog # <<>> /\ backlog \in Seq(Clients)
      /\ served' = Head(backlog) /\ backlog' = Tail(backlog)
      /\ ReceiveAnew /\ TypeOK /\ Backlog /\ Quiet /\ up
      /\ UNCHANGED <<up, chunk_buffer, message_buffer, connection, inbox, outbox,
                     clients, history>>
  BY DEF Accept, Inv, TypeOK
<1>2. PICK c \in Clients : c = Head(backlog)
  BY <1>1, HeadTailProperties
<1>3. /\ backlog' \in Seq(Clients) /\ Len(backlog) \in Nat \ {0}
      /\ Len(backlog') = Len(backlog) - 1
      /\ \A i \in 1 .. Len(backlog') : backlog'[i] = backlog[i + 1]
      /\ c = backlog[1]
  <2>1. /\ Tail(backlog) \in Seq(Clients) /\ Len(Tail(backlog)) = Len(backlog) - 1
        /\ \A i \in 1 .. Len(Tail(backlog)) : Tail(backlog)[i] = backlog[i + 1]
    BY <1>1, HeadTailProperties
  <2>2. Len(backlog) \in Nat \ {0} /\ Head(backlog) = backlog[1]
    BY <1>1, EmptySeq
  <2>3. QED
    BY <1>1, <1>2, <2>1, <2>2
<1>4. PICK rest \in Seq(Clients) : rest = backlog'
  BY <1>3
<1>5. /\ Len(rest) = Len(backlog) - 1 /\ Len(rest) \in Nat
      /\ \A i \in 1 .. Len(rest) : rest[i] = backlog[i + 1]
  BY <1>3, <1>4
<1>6. Queued(c)
  BY <1>3 DEF Queued
<1>7. ASSUME NEW d PROVE Queued(d)' <=> Queued(d) /\ d # c
  <2>1. ASSUME NEW i \in 1 .. Len(rest), rest[i] = d PROVE Queued(d) /\ d # c
    <3>1. i + 1 \in 1 .. Len(backlog) /\ backlog[i + 1] = d /\ i + 1 # 1 /\ 1 \in 1 .. Len(backlog)
      BY <1>3, <1>5, <2>1
    <3>2. backlog[i + 1] # backlog[1]
      BY <1>1, <3>1 DEF Backlog
    <3>3. QED
      BY <1>3, <3>1, <3>2 DEF Queued
  <2>2. ASSUME Queued(d), d # c PROVE \E i \in 1 .. Len(rest) : rest[i] = d
    <3>1. PICK j \in 1 .. Len(backlog) : backlog[j] = d
      BY <2>2 DEF Queued
    <3>2. j # 1
      BY <1>3, <2>2, <3>1
    <3>3. j - 1 \in 1 .. Len(rest) /\ (j - 1) + 1 = j
      BY <1>3, <1>5, <3>2
    <3>4. rest[j - 1] = d
      BY <1>5, <3>1, <3>3
    <3>5. QED
      BY <3>3, <3>4
  <2>3. QED
    BY <1>4, <2>1, <2>2 DEF Queued
<1>8. TypeOK'
  <2>1. /\ pc' = "size" /\ served' \in Clients /\ served' # None
        /\ cur_size' \in Nat /\ message_size' \in Nat /\ transfer_progressive' \in 0 .. BufferSize
        /\ raw_command_size' \in [1 .. HeaderBytes -> Bytes] /\ response' = None
    BY <1>1, <1>2, ServerAssumption DEF ReceiveAnew, Zeros, Bytes, HeaderBytes
  <2>2. QED
    BY <1>1, <1>3, <2>1 DEF TypeOK, clients, history
<1>9. Backlog'
  <2>1. served' = c /\ ~Queued(c)'
    BY <1>1, <1>2, <1>7
  <2>2. ASSUME NEW i \in 1 .. Len(rest), NEW j \in 1 .. Len(rest), rest[i] = rest[j] PROVE i = j
    <3>1. i + 1 \in 1 .. Len(backlog) /\ j + 1 \in 1 .. Len(backlog) /\ backlog[i + 1] = backlog[j + 1]
      BY <1>3, <1>5, <2>2
    <3>2. i + 1 = j + 1
      BY <1>1, <3>1 DEF Backlog
    <3>3. QED
      BY <1>5, <3>2
  <2>3. QED
    BY <1>4, <2>1, <2>2 DEF Backlog, Queued
<1>10. Quiet' /\ c \notin performed /\ pc' = "size"
  <2>1. performed = {} /\ performed' = {} /\ up' /\ pc' = "size" /\ transfer_progressive' = 0
    BY <1>1, ServerAssumption DEF Quiet, ReceiveAnew, history, TypeOK
  <2>2. QED
    BY <2>1 DEF Quiet
<1>11. ASSUME NEW d \in Clients PROVE (Unused(d)' <=> Unused(d)) /\ (Unread(d)' <=> Unread(d))
  <2>1. /\ client' = client /\ request' = request /\ connection' = connection
        /\ inbox' = inbox /\ outbox' = outbox
    BY <1>1 DEF clients
  <2>2. Length(request[d])' = Length(request[d])
    BY <2>1 DEF Length
  <2>3. QED
    BY <2>1, <2>2 DEF Unused, Unread, At
<1>12. ASSUME NEW d \in Clients PROVE Place(d)'
  <2>1. Place(d) /\ d # served
    BY <1>1, ServerAssumption DEF Inv
  <2>2. CASE d = c
    <3>1. Unread(d)' /\ d \notin performed'
      BY <1>1, <1>6, <1>10, <1>11, <2>1, <2>2 DEF Place, history
    <3>2. QED
      BY <1>1, <1>2, <1>7, <1>10, <2>2, <3>1 DEF Place, Exchange
  <2>3. CASE d # c
    BY <1>1, <1>2, <1>7, <1>11, <2>1, <2>3 DEF Place
  <2>4. QED
    BY <2>2, <2>3
<1>13. QED
  BY <1>8, <1>9, <1>10, <1>12 DEF Inv

LEMMA RelaunchInv ==
  ASSUME Inv, Relaunch
  PROVE  Inv'
<1>1. /\ up' = TRUE /\ UNCHANGED <<server, network, clients, history>>
      /\ TypeOK /\ Backlog /\ Quiet
  BY DEF Relaunch, Inv
<1>2. TypeOK'
  <2>1. up' \in BOOLEAN
    BY <1>1, Zenon
  <2>2. QED
    BY <1>1, <2>1 DEF TypeOK, server, network, clients, history
<1>3. Backlog' /\ Quiet'
  BY <1>1 DEF Backlog, Quiet, Queued, server, network, clients, history
<1>4. ASSUME NEW d \in Clients PROVE Place(d)'
  <2>1. Place(d)
    BY DEF Inv
  <2>2. Length(request[d])' = Length(request[d])
    BY <1>1 DEF Length, clients
  <2>3. Exchange(d)' <=> Exchange(d)
    BY <1>1, <2>2 DEF Exchange, Unread, Completed, Receiving, Arriving, Answering, At,
                      server, network, clients, history
  <2>4. QED
    BY <1>1, <2>1, <2>2, <2>3 DEF Place, Unused, Unread, At, Queued,
                      server, network, clients, history
<1>5. QED
  BY <1>2, <1>3, <1>4 DEF Inv

LEMMA InitInv == Init => Inv
<1> SUFFICES ASSUME Init PROVE Inv
  OBVIOUS
<1>1. TypeOK
  <2>1. /\ raw_command_size \in [1 .. HeaderBytes -> Bytes]
        /\ chunk_buffer \in [1 .. ChunkSize -> Bytes]
        /\ message_buffer \in [1 .. BufferSize -> Bytes]
    BY DEF Init, Zeros, Bytes, HeaderBytes
  <2>2. up \in BOOLEAN
    BY Zenon DEF Init
  <2>3. asked \in 0 .. MaxRequests /\ transfer_progressive \in 0 .. BufferSize
    BY ServerAssumption DEF Init
  <2>4. QED
    BY <2>1, <2>2, <2>3, ServerAssumption, EmptySeq DEF Init, TypeOK
<1>2. Backlog /\ Quiet
  BY EmptySeq DEF Init, Backlog, Quiet, Queued
<1>3. ASSUME NEW c \in Clients PROVE Place(c)
  BY EmptySeq, ServerAssumption DEF Init, Place, Queued, Unused
<1>4. QED
  BY <1>1, <1>2, <1>3 DEF Inv

LEMMA StutterInv ==
  ASSUME Inv, UNCHANGED vars
  PROVE  Inv'
<1>1. /\ UNCHANGED <<up, server, network, clients, history>>
      /\ TypeOK /\ Backlog /\ Quiet
  BY DEF vars, Inv
<1>2. TypeOK' /\ Backlog' /\ Quiet'
  BY <1>1 DEF TypeOK, Backlog, Quiet, Queued, server, network, clients, history
<1>3. ASSUME NEW d \in Clients PROVE Place(d)'
  <2>1. Place(d)
    BY DEF Inv
  <2>2. Length(request[d])' = Length(request[d])
    BY <1>1 DEF Length, clients
  <2>3. QED
    BY <1>1, <2>1, <2>2 DEF Place, Exchange, Unread, Unused, Queued, Completed, Receiving,
          Arriving, Answering, At, server, network, clients, history
<1>4. QED
  BY <1>2, <1>3 DEF Inv

LEMMA NextInv ==
  ASSUME WholeHeaders, Inv, [Next]_vars
  PROVE  Inv'
<1>1. CASE DriverStep
  BY <1>1, AcceptInv, ReadSizeInv, ReadTextInv, DisconnectInv, ReadFailsInv, HandleInv,
     WaitAckInv DEF DriverStep
<1>2. CASE \E c \in Clients : \/ Connect(c)
                              \/ \E m \in Commands \union {Empty} : AskFor(c, m)
                              \/ ClientStep(c)
                              \/ Leave(c)
  BY <1>2, ConnectInv, AskForInv, GetAckInv, GetSizeInv, GetResponseInv, LeaveInv DEF ClientStep
<1>3. QED
  BY <1>1, <1>2, RelaunchInv, StutterInv DEF Next

LEMMA Invariance == ASSUME WholeHeaders PROVE Spec => []Inv
<1>1. Inv /\ [Next]_vars => Inv'
  BY NextInv
<1>2. QED
  BY <1>1, InitInv, PTL DEF Spec

\* No variable of the server leaves its type, and no chunk is copied past the
\* end of message_buffer (receive_command).
THEOREM ServerTypeCorrect == ASSUME WholeHeaders PROVE Spec => []TypeOK
  BY Invariance, PTL DEF Inv

-----------------------------------------------------------------------------
(* The refinement, action by action                                         *)

LEMMA BrokenKept ==
  ASSUME UNCHANGED <<client, request>>
  PROVE  Broken' = Broken
  BY DEF Broken

LEMMA Stutters ==
  ASSUME UNCHANGED <<up, clients, history>>
  PROVE  UNCHANGED Service!svars
<1>1. Broken' = Broken
  BY BrokenKept DEF clients
<1>2. QED
  BY <1>1 DEF Service!svars, clients, history

\* The driver ends in the middle of the exchange of a client that has left.
LEMMA DieEndsOnBreak ==
  ASSUME Inv, NEW c \in Clients, c \in Broken, up, Die, UNCHANGED journal
  PROVE  Service!Next
<1>1. Broken' = {} /\ Broken # {}
  BY DEF Die, Broken
<1>2. Service!Stopped
  BY <1>1, Zenon DEF Die, Service!Stopped
<1>3. QED
  BY <1>1, <1>2 DEF Service!EndOnBreak, Service!Next

LEMMA HandleRefines ==
  ASSUME Inv, Handle
  PROVE  Service!Next
<1>0. PICK c \in Clients : c = served
  BY Serving DEF Handle
<1>1. /\ pc = "handle" /\ performed = {} /\ request[c] \in Commands /\ up
      /\ journal' = Service!Journal(request[c])
      /\ Respond(request[c]) \/ (request[c] \in Fatal \ Rejected /\ Die)
  BY <1>0, HandleEffect, Serving
<1>2. CASE Respond(request[c])
  <2>1. performed' = {c} /\ UNCHANGED <<up, request, answer, client>>
    BY <1>0, <1>1, <1>2 DEF Respond, clients
  <2>2. Broken' = Broken
    BY <2>1, BrokenKept
  <2>3. Service!Perform(c)
    BY <1>1, <2>1, <2>2 DEF Service!Perform
  <2>4. QED
    BY <2>3 DEF Service!Next
<1>3. CASE request[c] \in Fatal \ Rejected /\ Die
  <2>1. Broken' = {}
    BY <1>3 DEF Die, Broken
  <2>2. Service!Stopped
    BY <1>1, <1>3, <2>1, Zenon DEF Die, Service!Stopped
  <2>3. Service!EndOnCommand(c)
    BY <1>1, <1>3, <2>2 DEF Service!EndOnCommand
  <2>4. QED
    BY <2>3 DEF Service!Next
<1>4. QED
  BY <1>1, <1>2, <1>3

LEMMA WaitAckRefines ==
  ASSUME Inv, WaitAck
  PROVE  [Service!Next]_Service!svars
<1>0. PICK c \in Clients : c = served
  BY Serving DEF WaitAck
<1>1. CASE SendFails /\ Die /\ UNCHANGED journal
  <2>1. connection[c] = "reset" /\ up
    BY <1>0, <1>1, Serving DEF SendFails, WaitAck
  <2>2. c \in Broken
    BY <1>0, <2>1, EndedConnection DEF Broken
  <2>3. QED
    BY <1>1, <2>1, <2>2, DieEndsOnBreak
<1>2. CASE UNCHANGED <<up, clients, history>>
  BY <1>2, Stutters
<1>3. QED
  BY <1>0, <1>1, <1>2, WaitAckEffect

LEMMA ReadFailsRefines ==
  ASSUME Inv, ReadFails
  PROVE  Service!Next
<1>1. /\ up /\ Die /\ UNCHANGED journal
      /\ \/ pc \in {"text", "wait_ack"} /\ connection[served] \in {"closed", "reset"}
         \/ pc \in {"size", "text", "wait_ack"} /\ connection[served] = "reset"
  BY DEF ReadFails, EndOfConnection
<1>2. PICK c \in Clients : c = served
  BY <1>1, Serving
<1>3. c \in Broken
  BY <1>1, <1>2, EndedConnection DEF Broken
<1>4. QED
  BY <1>1, <1>3, DieEndsOnBreak

LEMMA DisconnectRefines ==
  ASSUME Inv, Disconnect
  PROVE  [Service!Next]_Service!svars
<1>0. PICK c \in Clients : c = served
  BY Serving DEF Disconnect
<1>1. /\ connection[c] \in {"closed", "reset"}
      /\ request' = [request EXCEPT ![c] = None] /\ performed' = performed \ {c}
      /\ UNCHANGED <<up, client, answer, journal>> /\ TypeOK
  BY <1>0 DEF Disconnect, EndOfConnection, Inv
<1>2. client[c] = "away" /\ (request[c] = None => c \notin performed)
  BY <1>0, <1>1, EndedConnection
<1>3. Broken' = Broken \ {c}
  BY <1>1 DEF Broken, TypeOK
<1>4. CASE request[c] = None
  <2>1. request' = request /\ performed' = performed
    BY <1>1, <1>2, <1>4 DEF TypeOK
  <2>2. Broken' = Broken
    BY <1>1, <2>1, BrokenKept
  <2>3. QED
    BY <1>1, <2>1, <2>2 DEF Service!svars
<1>5. CASE request[c] # None
  <2>1. c \in Broken
    BY <1>2, <1>5 DEF Broken
  <2>2. Service!Forget(c)
    BY <1>1, <1>3, <2>1 DEF Service!Forget
  <2>3. QED
    BY <2>2 DEF Service!Next
<1>6. QED
  BY <1>4, <1>5

LEMMA DriverRefines ==
  ASSUME WholeHeaders, Inv, DriverStep
  PROVE  [Service!Next]_Service!svars
<1>1. CASE Accept
  BY <1>1, Stutters DEF Accept
<1>2. CASE ReadSize
  BY <1>2, Stutters, ReadSizeEffect
<1>3. CASE ReadText
  BY <1>3, Stutters DEF ReadText
<1>4. QED
  BY <1>1, <1>2, <1>3, DisconnectRefines, ReadFailsRefines, HandleRefines, WaitAckRefines
     DEF DriverStep

LEMMA ClientRefines ==
  ASSUME Inv, NEW c \in Clients,
         Connect(c) \/ (\E m \in Commands \union {Empty} : AskFor(c, m)) \/ ClientStep(c) \/ Leave(c)
  PROVE  [Service!Next]_Service!svars
<1>0. TypeOK
  BY DEF Inv
<1>1. CASE Connect(c)
  <2>1. /\ UNCHANGED <<up, request, answer, history>>
        /\ client' = [client EXCEPT ![c] = "idle"] /\ connection[c] = "none"
    BY <1>1 DEF Connect
  <2>2. request[c] = None
    BY <1>1, <2>1, ServerAssumption DEF Inv, TypeOK, Place, Exchange, Unread, Completed, Arriving,
             Answering, At, Unused
  <2>3. Broken' = Broken
    BY <1>0, <2>1, <2>2 DEF Broken, TypeOK
  <2>4. QED
    BY <2>1, <2>3 DEF Service!svars, history
<1>2. CASE \E m \in Commands \union {Empty} : AskFor(c, m)
  <2>1. PICK m \in Commands \union {Empty} : AskFor(c, m)
    BY <1>2
  <2>2. /\ request' = [request EXCEPT ![c] = m] /\ client' = [client EXCEPT ![c] = "sized"]
        /\ client[c] = "idle" /\ UNCHANGED <<up, answer, history>>
    BY <2>1 DEF AskFor
  <2>3. request[c] = None /\ (served = c \/ Queued(c))
    BY <2>2, IdleUnread
  <2>4. up
    BY <2>3, EmptySeq, ServerAssumption DEF Inv, Quiet, Queued
  <2>5. Broken' = Broken
    BY <1>0, <2>2, <2>3 DEF Broken, TypeOK
  <2>6. Service!Ask(c)
    BY <2>2, <2>3, <2>4, <2>5 DEF Service!Ask, history
  <2>7. QED
    BY <2>6 DEF Service!Next
<1>3. CASE GetAck(c)
  <2>1. client[c] = "sized" /\ UNCHANGED <<up, answer, history>>
    BY <1>3 DEF GetAck
  <2>2. CASE request[c] = Empty
    <3>1. client' = [client EXCEPT ![c] = "idle"] /\ request' = [request EXCEPT ![c] = None]
      BY <1>3, <2>2 DEF GetAck
    <3>2. Broken' = Broken /\ c \notin Broken
      BY <1>0, <2>1, <3>1 DEF Broken, TypeOK
    <3>3. Service!Acknowledge(c)
      BY <2>1, <2>2, <3>1, <3>2 DEF Service!Acknowledge, history
    <3>4. QED
      BY <3>3 DEF Service!Next
  <2>3. CASE request[c] # Empty
    <3>1. client' = [client EXCEPT ![c] = "sent"] /\ request' = request
      BY <1>3, <2>3 DEF GetAck
    <3>2. Broken' = Broken
      BY <1>0, <2>1, <3>1 DEF Broken, TypeOK
    <3>3. QED
      BY <2>1, <3>1, <3>2 DEF Service!svars, history
  <2>4. QED
    BY <2>2, <2>3
<1>4. CASE GetSize(c)
  <2>1. /\ client[c] = "sent" /\ client' = [client EXCEPT ![c] = "answered"]
        /\ UNCHANGED <<up, request, answer, history>>
    BY <1>4 DEF GetSize
  <2>2. Broken' = Broken
    BY <1>0, <2>1 DEF Broken, TypeOK
  <2>3. QED
    BY <2>1, <2>2 DEF Service!svars, history
<1>5. CASE GetResponse(c)
  <2>1. /\ client[c] = "answered" /\ client' = [client EXCEPT ![c] = "idle"] /\ outbox[c] # <<>>
        /\ request' = [request EXCEPT ![c] = None] /\ performed' = performed \ {c}
        /\ answer' = [answer EXCEPT ![c] = Head(outbox[c])]
        /\ UNCHANGED <<up, journal>>
    BY <1>5 DEF GetResponse
  <2>2. c \in performed /\ outbox[c] = <<Service!Result(request[c])>>
    BY <2>1, ResponseArrives
  <2>3. Head(outbox[c]) = Service!Result(request[c])
    BY <2>2
  <2>4. Broken' = Broken /\ c \notin Broken
    BY <1>0, <2>1 DEF Broken, TypeOK
  <2>5. Service!Receive(c)
    BY <2>1, <2>2, <2>3, <2>4 DEF Service!Receive
  <2>6. QED
    BY <2>5 DEF Service!Next
<1>6. CASE Leave(c)
  <2>1. /\ client' = [client EXCEPT ![c] = "away"]
        /\ UNCHANGED <<up, request, answer, history>>
    BY <1>6 DEF Leave
  <2>2. CASE request[c] = None
    <3>1. Broken' = Broken
      BY <1>0, <2>1, <2>2 DEF Broken, TypeOK
    <3>2. QED
      BY <2>1, <3>1 DEF Service!svars, history
  <2>3. CASE request[c] # None
    <3>1. Broken' = Broken \union {c}
      BY <1>0, <2>1, <2>3 DEF Broken, TypeOK
    <3>2. Service!BreakOff(c)
      BY <2>1, <2>3, <3>1 DEF Service!BreakOff, history
    <3>3. QED
      BY <3>2 DEF Service!Next
  <2>4. QED
    BY <2>2, <2>3
<1>7. QED
  BY <1>1, <1>2, <1>3, <1>4, <1>5, <1>6 DEF ClientStep

LEMMA NextRefines ==
  ASSUME WholeHeaders, Inv, [Next]_vars
  PROVE  [Service!Next]_Service!svars
<1>1. CASE Relaunch
  <2>1. UNCHANGED <<clients, history>> /\ ~up /\ up' = TRUE
    BY <1>1 DEF Relaunch
  <2>2. Broken' = Broken
    BY <2>1, BrokenKept DEF clients
  <2>3. Service!Restart
    BY <2>1, <2>2 DEF Service!Restart, clients, history
  <2>4. QED
    BY <2>3 DEF Service!Next
<1>2. CASE UNCHANGED vars
  BY <1>2, Stutters DEF vars
<1>3. QED
  BY <1>1, <1>2, DriverRefines, ClientRefines DEF Next

\* The connector implements the command service: each step of the driver and
\* its clients is one of the service or none (start_server, receive_command,
\* send_response).
THEOREM ServerImplementsService == ASSUME WholeHeaders PROVE Spec => ServiceProvided
<1>1. Init => Service!Init
  <2>1. ASSUME Init PROVE Broken = {}
    BY <2>1 DEF Init, Broken
  <2>2. QED
    BY <2>1 DEF Init, Service!Init, Service!Idle
<1>2. Inv /\ [Next]_vars => [Service!Next]_Service!svars
  BY NextRefines
<1>3. QED
  BY <1>1, <1>2, Invariance, PTL DEF Spec, ServiceProvided, Service!Spec
=============================================================================
