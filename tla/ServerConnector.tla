--------------------------- MODULE ServerConnector --------------------------
(***************************************************************************)
(* The command server: one thread that accepts a connection, receives a     *)
(* command over it as a length of HeaderBytes bytes and a msgpack text,     *)
(* performs it and sends the response, with an acknowledgement byte after    *)
(* each length.  A connection is a stream: the driver's read_some may get    *)
(* any part of what was sent, and a client may leave at any time.           *)
(*                                                                         *)
(* The client is not in the repository.  It is modelled from what the       *)
(* driver sends and waits for.                                              *)
(***************************************************************************)
EXTENDS Integers, Sequences

CONSTANTS Clients, Commands, Rejected, Fatal, Empty, None,
          Encoding,     \* Encoding[m]: the msgpack text of command m, in bytes
          ChunkSize,    \* bytes of chunk_buffer
          BufferSize,   \* bytes of message_buffer
          WholeHeaders, \* the network delivers a length in one piece
          MaxRequests   \* bound on the requests of all clients

Bytes == 0 .. 255
Above(n) == n \div 256
HeaderBytes == 4

ASSUME ServerAssumption ==
    /\ ChunkSize \in Nat \ {0}
    /\ BufferSize \in Nat
    /\ WholeHeaders \in BOOLEAN
    /\ MaxRequests \in Nat
    /\ Rejected \subseteq Commands /\ Fatal \subseteq Commands
    /\ Empty \notin Commands /\ None \notin Commands \union Clients \union {Empty}
    /\ \A m \in Commands :
         /\ Encoding[m] \in Seq(Bytes) \ {<<>>}
         /\ Above(Above(Above(Len(Encoding[m])))) \in Bytes
         /\ Len(Encoding[m]) + ChunkSize <= BufferSize
         /\ \A n \in Commands : Encoding[m] = Encoding[n] => m = n

VARIABLES
    up,              \* the driver runs
    pc,              \* where its thread is
    served,          \* the client whose socket it holds
    cur_size, raw_command_size, message_size,         \* receive_command
    transfer_progressive, chunk_buffer, message_buffer,
    response,        \* what send_response is sending
    client,          \* where each client is in the exchange
    request,         \* what it has asked for
    answer,          \* the last answer it received
    connection,      \* the state of its connection
    backlog,         \* the connections not yet accepted
    inbox, outbox,   \* bytes to the driver, messages to the client
    performed, journal,    \* history: requests performed, commands performed
    asked            \* number of requests

server == <<pc, served, cur_size, raw_command_size, message_size,
            transfer_progressive, chunk_buffer, message_buffer, response>>
network == <<connection, backlog, inbox, outbox>>
clients == <<client, request, answer, asked>>
history == <<performed, journal>>
vars == <<up, server, network, clients, history>>

Ack == 107
Zeros(n) == [i \in 1 .. n |-> 0]

\* The clients that left in the middle of an exchange.
Broken == {c \in Clients : client[c] = "away" /\ request[c] # None}

Service == INSTANCE CommandService WITH broken <- Broken

-----------------------------------------------------------------------------
(* Lengths *)

\* A length as a uint32_t is sent, least significant byte first, and the
\* number that such bytes are.
Header(n) == <<n % 256, Above(n) % 256, Above(Above(n)) % 256, Above(Above(Above(n)))>>

Value(raw) == raw[1] + 256 * (raw[2] + 256 * (raw[3] + 256 * raw[4]))

\* What a client says the length of its request is.
Length(m) == IF m = Empty THEN 0 ELSE Len(Encoding[m])

\* What a read leaves in a buffer it starts to fill from its first byte.
Overwritten(buffer, bytes) ==
    [i \in DOMAIN buffer |-> IF i <= Len(bytes) THEN bytes[i] ELSE buffer[i]]

\* A defect: the chunk is copied to the start of the message each time.
CopyAtStart(buffer, n, chunk) ==
    [i \in DOMAIN buffer |-> IF i \in DOMAIN chunk THEN chunk[i] ELSE buffer[i]]

\* Copying the whole chunk, stale bytes included, behind the first n bytes.
CopyAt(buffer, n, chunk) ==
    [i \in DOMAIN buffer |->
        IF i - n \in DOMAIN chunk THEN chunk[i - n] ELSE buffer[i]]

-----------------------------------------------------------------------------
(* The connection *)

\* A read gets any non-empty part of what is there, up to limit bytes.
Deliveries(limit, whole) ==
    LET available == Len(inbox[served])
        most == IF available < limit THEN available ELSE limit
    IN  IF whole THEN {most} \ {0} ELSE 1 .. most

Take(n) == SubSeq(inbox[served], 1, n)
Consume(n) == inbox' = [inbox EXCEPT ![served] = SubSeq(@, n + 1, Len(@))]

\* A message to a client that has closed its end makes the connection a reset one.
Send(message) ==
    /\ outbox' = IF connection[served] = "open"
                 THEN [outbox EXCEPT ![served] = Append(@, message)] ELSE outbox
    /\ connection' = IF connection[served] = "open" THEN connection
                     ELSE [connection EXCEPT ![served] = "reset"]

SendFails == connection[served] = "reset"

\* An exception leaves main: every connection is reset.
Die == /\ up' = FALSE
       /\ pc' = "accept" /\ served' = None
       /\ cur_size' = 0 /\ message_size' = 0 /\ transfer_progressive' = 0
       /\ raw_command_size' = Zeros(HeaderBytes)
       /\ chunk_buffer' = Zeros(ChunkSize) /\ message_buffer' = Zeros(BufferSize)
       /\ response' = None
       /\ connection' = [c \in Clients |-> "none"]
       /\ backlog' = <<>>
       /\ inbox' = [c \in Clients |-> <<>>] /\ outbox' = [c \in Clients |-> <<>>]
       /\ client' = [c \in Clients |-> "away"]
       /\ request' = [c \in Clients |-> None]
       /\ performed' = {}
       /\ UNCHANGED <<answer, asked>>

-----------------------------------------------------------------------------
(* The driver *)

\* A defect: transfer_progressive goes on from the last command.
ReceiveOn == /\ pc' = "size"
             /\ cur_size' = 0 /\ message_size' = 0 /\ UNCHANGED transfer_progressive
             /\ raw_command_size' = Zeros(HeaderBytes)
             /\ response' = None

ReceiveAnew == /\ pc' = "size"
               /\ cur_size' = 0 /\ message_size' = 0 /\ transfer_progressive' = 0
               /\ raw_command_size' = Zeros(HeaderBytes)
               /\ response' = None

Accept == /\ up /\ pc = "accept"
          /\ backlog # <<>>
          /\ served' = Head(backlog)
          /\ backlog' = Tail(backlog)
          /\ ReceiveAnew
          /\ UNCHANGED <<up, chunk_buffer, message_buffer, connection, inbox, outbox,
                         clients, history>>

\* The length is read to the start of raw_command_size however much of it is
\* there already; a length of zero is acknowledged and another one awaited,
\* with cur_size as it is.
ReadSize ==
    /\ up /\ pc = "size"
    /\ \E n \in Deliveries(HeaderBytes, WholeHeaders) :
         LET raw == Overwritten(raw_command_size, Take(n))
         IN  \/ /\ cur_size + n < HeaderBytes
                /\ raw_command_size' = raw
                /\ cur_size' = cur_size + n
                /\ Consume(n)
                /\ UNCHANGED <<up, pc, message_size, outbox, connection,
                               served, transfer_progressive, chunk_buffer, message_buffer,
                               response, backlog, clients, history>>
             \/ /\ cur_size + n >= HeaderBytes
                /\ ~SendFails
                /\ Send("ack")
                /\ Consume(n)
                /\ message_size' = Value(raw)
                /\ IF Value(raw) = 0
                   THEN /\ pc' = "size"
                        /\ raw_command_size' = Zeros(HeaderBytes)
                        /\ cur_size' = cur_size + n
                   ELSE /\ pc' = "text"
                        /\ raw_command_size' = raw
                        /\ cur_size' = 0
                /\ UNCHANGED <<up, served, transfer_progressive, chunk_buffer,
                               message_buffer, response, backlog, clients, history>>
             \/ /\ cur_size + n >= HeaderBytes
                /\ SendFails
                /\ Die
                /\ UNCHANGED journal

\* A defect: a read counts as a whole chunk.
ReadTextByChunk ==
    /\ up /\ pc = "text"
    /\ \E n \in Deliveries(ChunkSize, FALSE) :
         /\ chunk_buffer' = Overwritten(chunk_buffer, Take(n))
         /\ message_buffer' = CopyAt(message_buffer, transfer_progressive, chunk_buffer')
         /\ transfer_progressive' = transfer_progressive + ChunkSize
         /\ cur_size' = n
         /\ Consume(n)
    /\ pc' = IF transfer_progressive' < message_size THEN "text" ELSE "handle"
    /\ UNCHANGED <<up, served, raw_command_size, message_size, response,
                   connection, backlog, outbox, clients, history>>

\* A defect: the text is read until there is more than its length.
ReadTextPast ==
    /\ up /\ pc = "text"
    /\ \E n \in Deliveries(ChunkSize, FALSE) :
         /\ chunk_buffer' = Overwritten(chunk_buffer, Take(n))
         /\ message_buffer' = CopyAt(message_buffer, transfer_progressive, chunk_buffer')
         /\ transfer_progressive' = transfer_progressive + n
         /\ cur_size' = n
         /\ Consume(n)
    /\ pc' = IF transfer_progressive' <= message_size THEN "text" ELSE "handle"
    /\ UNCHANGED <<up, served, raw_command_size, message_size, response,
                   connection, backlog, outbox, clients, history>>

ReadText ==
    /\ up /\ pc = "text"
    /\ \E n \in Deliveries(ChunkSize, FALSE) :
         /\ chunk_buffer' = Overwritten(chunk_buffer, Take(n))
         /\ message_buffer' = CopyAt(message_buffer, transfer_progressive, chunk_buffer')
         /\ transfer_progressive' = transfer_progressive + n
         /\ cur_size' = n
         /\ Consume(n)
    /\ pc' = IF transfer_progressive' < message_size THEN "text" ELSE "handle"
    /\ UNCHANGED <<up, served, raw_command_size, message_size, response,
                   connection, backlog, outbox, clients, history>>

\* The end of the stream ends the connection where a command may start, and
\* the driver everywhere else; an error ends the driver.
EndOfConnection == /\ connection[served] \in {"closed", "reset"}
                   /\ inbox[served] = <<>>

\* A defect: the end of the stream counts as nothing read.
DisconnectUnnoticed ==
    /\ up /\ pc = "size"
    /\ EndOfConnection
    /\ UNCHANGED vars

Disconnect ==
    /\ up /\ pc = "size"
    /\ EndOfConnection
    /\ pc' = "accept" /\ served' = None
    /\ connection' = [connection EXCEPT ![served] = "none"]
    /\ outbox' = [outbox EXCEPT ![served] = <<>>]
    /\ request' = [request EXCEPT ![served] = None]
    /\ performed' = performed \ {served}
    /\ UNCHANGED <<up, cur_size, raw_command_size, message_size, transfer_progressive,
                   chunk_buffer, message_buffer, response, backlog, inbox,
                   client, answer, asked, journal>>

ReadFails ==
    /\ up
    /\ \/ pc \in {"text", "wait_ack"} /\ EndOfConnection
       \/ pc \in {"size", "text", "wait_ack"} /\ connection[served] = "reset"
    /\ Die
    /\ UNCHANGED journal

Received == SubSeq(message_buffer, 1, message_size)

\* The handler of the command m, which may throw when m is one of Fatal, and
\* the length of the response.
Respond(m) == /\ ~SendFails
              /\ response' = Service!Result(m)
              /\ performed' = performed \union {served}
              /\ Send("size")
              /\ pc' = "wait_ack"
              /\ UNCHANGED <<up, served, cur_size, raw_command_size, message_size,
                             transfer_progressive, chunk_buffer, message_buffer,
                             backlog, inbox, clients>>

Handle ==
    /\ up /\ pc = "handle"
    /\ \/ \E m \in Commands :
            /\ Received = Encoding[m]
            /\ journal' = IF m \in Rejected THEN journal ELSE Append(journal, m)
            /\ \/ Respond(m)
               \/ (SendFails \/ m \in Fatal \ Rejected) /\ Die
       \/ /\ \A m \in Commands : Received # Encoding[m]
          /\ Die
          /\ UNCHANGED journal

WaitAck ==
    /\ up /\ pc = "wait_ack"
    /\ inbox[served] # <<>>
    /\ \/ /\ ~SendFails
          /\ Consume(1)
          /\ Send(response)
          /\ ReceiveAnew
          /\ UNCHANGED <<up, served, chunk_buffer, message_buffer, backlog,
                         clients, history>>
       \/ /\ SendFails
          /\ Die
          /\ UNCHANGED journal

DriverStep == Accept \/ ReadSize \/ ReadText \/ Disconnect \/ ReadFails \/ Handle \/ WaitAck

Relaunch == /\ ~up
            /\ up' = TRUE
            /\ UNCHANGED <<server, network, clients, history>>

-----------------------------------------------------------------------------
(* The clients *)

ClientSends(c, bytes) == inbox' = [inbox EXCEPT ![c] = @ \o bytes]

Connect(c) == /\ up
              /\ client[c] = "away" /\ connection[c] = "none"
              /\ client' = [client EXCEPT ![c] = "idle"]
              /\ connection' = [connection EXCEPT ![c] = "open"]
              /\ backlog' = Append(backlog, c)
              /\ UNCHANGED <<up, server, inbox, outbox, request, answer, asked, history>>

AskFor(c, m) == /\ client[c] = "idle"
                /\ asked < MaxRequests
                /\ asked' = asked + 1
                /\ request' = [request EXCEPT ![c] = m]
                /\ client' = [client EXCEPT ![c] = "sized"]
                /\ ClientSends(c, Header(Length(m)))
                /\ UNCHANGED <<up, server, connection, backlog, outbox, answer, history>>

Gets(c, message) == /\ outbox[c] # <<>>
                    /\ Head(outbox[c]) = message
                    /\ outbox' = [outbox EXCEPT ![c] = Tail(@)]

GetAck(c) == /\ client[c] = "sized"
             /\ Gets(c, "ack")
             /\ IF request[c] = Empty
                THEN /\ client' = [client EXCEPT ![c] = "idle"]
                     /\ request' = [request EXCEPT ![c] = None]
                     /\ inbox' = inbox
                ELSE /\ client' = [client EXCEPT ![c] = "sent"]
                     /\ ClientSends(c, Encoding[request[c]])
                     /\ request' = request
             /\ UNCHANGED <<up, server, connection, backlog, answer, asked, history>>

GetSize(c) == /\ client[c] = "sent"
              /\ Gets(c, "size")
              /\ client' = [client EXCEPT ![c] = "answered"]
              /\ ClientSends(c, <<Ack>>)
              /\ UNCHANGED <<up, server, connection, backlog, request, answer, asked, history>>

GetResponse(c) == /\ client[c] = "answered"
                  /\ outbox[c] # <<>>
                  /\ Gets(c, Head(outbox[c]))
                  /\ answer' = [answer EXCEPT ![c] = Head(outbox[c])]
                  /\ request' = [request EXCEPT ![c] = None]
                  /\ performed' = performed \ {c}
                  /\ client' = [client EXCEPT ![c] = "idle"]
                  /\ UNCHANGED <<up, server, connection, backlog, inbox, asked, journal>>

\* A client that closes with messages it has not read resets the connection.
Leave(c) == /\ client[c] # "away"
            /\ client' = [client EXCEPT ![c] = "away"]
            /\ connection' = [connection EXCEPT ![c] =
                                IF outbox[c] = <<>> THEN "closed" ELSE "reset"]
            /\ outbox' = [outbox EXCEPT ![c] = <<>>]
            /\ UNCHANGED <<up, server, backlog, inbox, request, answer, asked, history>>

ClientStep(c) == GetAck(c) \/ GetSize(c) \/ GetResponse(c)

-----------------------------------------------------------------------------
Init == /\ up = TRUE
        /\ pc = "accept" /\ served = None
        /\ cur_size = 0 /\ message_size = 0 /\ transfer_progressive = 0
        /\ raw_command_size = Zeros(HeaderBytes)
        /\ chunk_buffer = Zeros(ChunkSize) /\ message_buffer = Zeros(BufferSize)
        /\ response = None
        /\ client = [c \in Clients |-> "away"]
        /\ request = [c \in Clients |-> None]
        /\ answer = [c \in Clients |-> None]
        /\ connection = [c \in Clients |-> "none"]
        /\ backlog = <<>>
        /\ inbox = [c \in Clients |-> <<>>] /\ outbox = [c \in Clients |-> <<>>]
        /\ performed = {} /\ journal = <<>>
        /\ asked = 0

Next == \/ DriverStep
        \/ Relaunch
        \/ \E c \in Clients : \/ Connect(c)
                              \/ \E m \in Commands \union {Empty} : AskFor(c, m)
                              \/ ClientStep(c)
                              \/ Leave(c)

Spec == Init /\ [][Next]_vars

\* The driver's thread goes on as long as it can, and a client that has
\* started an exchange goes on with it unless it leaves.
FairSpec == Spec /\ WF_vars(DriverStep) /\ \A c \in Clients : WF_vars(ClientStep(c))

-----------------------------------------------------------------------------
(* Properties *)

Messages == {"ack", "size"} \union {Service!Result(m) : m \in Commands}

\* The types of the variables, and that a copy of chunk_buffer, which is always
\* a copy of all of it, ends within message_buffer (receive_command).
TypeOK ==
    /\ up \in BOOLEAN
    /\ pc \in {"accept", "size", "text", "handle", "wait_ack"}
    /\ served \in Clients \union {None}
    /\ (served = None) <=> (pc = "accept")
    /\ cur_size \in Nat /\ message_size \in Nat
    /\ raw_command_size \in [1 .. HeaderBytes -> Bytes]
    /\ chunk_buffer \in [1 .. ChunkSize -> Bytes]
    /\ message_buffer \in [1 .. BufferSize -> Bytes]
    /\ transfer_progressive \in 0 .. BufferSize
    /\ pc = "text" => transfer_progressive + ChunkSize <= BufferSize
    /\ client \in [Clients -> {"away", "idle", "sized", "sent", "answered"}]
    /\ request \in [Clients -> Commands \union {Empty, None}]
    /\ connection \in [Clients -> {"none", "open", "closed", "reset"}]
    /\ backlog \in Seq(Clients)
    /\ inbox \in [Clients -> Seq(Bytes)] /\ outbox \in [Clients -> Seq(Messages)]
    /\ answer \in [Clients -> Messages \union {None}]
    /\ response \in Messages \union {None}
    /\ performed \subseteq Clients
    /\ journal \in Seq(Commands \ Rejected)
    /\ asked \in 0 .. MaxRequests

\* The connector keeps the promises of CommandService: a command is performed
\* at most once and alone, its client gets its own answer, and the driver ends
\* only because a handler threw or a client left within an exchange
\* (start_server, receive_command, send_response).
ServiceProvided == Service!Spec

\* What is handed to the endpoints is what the connected client asked for, not
\* yet performed, whatever pieces the network delivers and however much of the
\* buffers is left from earlier commands (receive_command, from_msgpack).
PerformsOnlyTheRequest ==
    [][journal' # journal => /\ served \notin performed
                             /\ journal' = Append(journal, request[served])]_vars

\* The exchange of the client that is served comes to an end: it has its
\* answer, or it has left, or the driver has ended (start_server).
RequestEnds ==
    \A c \in Clients : served = c /\ request[c] # None ~> request[c] = None

\* A client that has left is let go, so that the next one in the backlog can
\* be accepted (the return of receive_command at the end of the stream).
DepartedReleased ==
    \A c \in Clients : served = c /\ client[c] = "away" ~> served # c

=============================================================================
