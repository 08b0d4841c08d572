--------------------------- MODULE CommandService ---------------------------
(***************************************************************************)
(* What the command server of the driver promises its clients.  A client   *)
(* asks for one thing at a time: a command, or an Empty request, which is   *)
(* only acknowledged.  A command is performed at most once, while no other  *)
(* one is, and its client gets the answer to that command and no other.     *)
(* The service may end only when the command it performs is one whose       *)
(* handler can fail, or when a client has left in the middle of an          *)
(* exchange.                                                                *)
(***************************************************************************)
EXTENDS Sequences

CONSTANTS Clients, Commands,
          Rejected,     \* the commands that do not match the command schema
          Fatal,        \* the commands whose handler can throw
          Empty,        \* the request of length zero
          None          \* no request, no answer

VARIABLES request,      \* what each client has asked for
          performed,    \* the clients whose request has been performed
          answer,       \* the last answer each client received
          journal,      \* the commands handed to the endpoints, in order
          broken,       \* the clients that left in the middle of an exchange
          up            \* the driver runs

svars == <<request, performed, answer, journal, broken, up>>

\* What a command is answered with: a command that breaks the schema is not
\* performed, and its answer says so.
Result(m) == IF m \in Rejected THEN "invalid_cmd_schema" ELSE m

Journal(m) == IF m \in Rejected THEN journal ELSE Append(journal, m)

Idle == /\ request = [c \in Clients |-> None]
        /\ performed = {}
        /\ broken = {}

Init == /\ Idle
        /\ answer = [c \in Clients |-> None]
        /\ journal = <<>>
        /\ up = TRUE

Ask(c) == /\ up
          /\ request[c] = None
          /\ \E m \in Commands \union {Empty} : request' = [request EXCEPT ![c] = m]
          /\ UNCHANGED <<performed, answer, journal, broken, up>>

Perform(c) == /\ up
              /\ request[c] \in Commands
              /\ performed = {}
              /\ performed' = {c}
              /\ journal' = Journal(request[c])
              /\ UNCHANGED <<request, answer, broken, up>>

Receive(c) == /\ c \in performed \ broken
              /\ performed' = performed \ {c}
              /\ answer' = [answer EXCEPT ![c] = Result(request[c])]
              /\ request' = [request EXCEPT ![c] = None]
              /\ UNCHANGED <<journal, broken, up>>

Acknowledge(c) == /\ request[c] = Empty
                  /\ c \notin broken
                  /\ request' = [request EXCEPT ![c] = None]
                  /\ UNCHANGED <<performed, answer, journal, broken, up>>

BreakOff(c) == /\ request[c] # None
               /\ broken' = broken \union {c}
               /\ UNCHANGED <<request, performed, answer, journal, up>>

Forget(c) == /\ c \in broken
             /\ broken' = broken \ {c}
             /\ performed' = performed \ {c}
             /\ request' = [request EXCEPT ![c] = None]
             /\ UNCHANGED <<answer, journal, up>>

Stopped == /\ up
           /\ up' = FALSE
           /\ request' = [c \in Clients |-> None]
           /\ performed' = {}
           /\ broken' = {}
           /\ UNCHANGED answer

EndOnBreak == /\ broken # {}
              /\ Stopped
              /\ UNCHANGED journal

EndOnCommand(c) == /\ request[c] \in Fatal
                   /\ performed = {}
                   /\ journal' = Journal(request[c])
                   /\ Stopped

Restart == /\ ~up
           /\ up' = TRUE
           /\ UNCHANGED <<request, performed, answer, journal, broken>>

Next == \/ \E c \in Clients :
             \/ Ask(c) \/ Perform(c) \/ Receive(c) \/ Acknowledge(c)
             \/ BreakOff(c) \/ Forget(c) \/ EndOnCommand(c)
        \/ EndOnBreak
        \/ Restart

Spec == Init /\ [][Next]_svars
=============================================================================
