-------------------------- MODULE MCServerConnector -------------------------
(* Commands for TLC: two of one length that differ in their last byte, one  *)
(* that breaks the schema and a longer one whose handler can throw.         *)
EXTENDS ServerConnector

MCEncoding == [m \in Commands |-> CASE m = "start" -> <<8, 1>>
                                    [] m = "stop" -> <<8, 2>>
                                    [] m = "bogus" -> <<9>>
                                    [] m = "compile" -> <<8, 3, 1>>]
=============================================================================
