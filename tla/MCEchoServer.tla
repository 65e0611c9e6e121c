---------------------------- MODULE MCEchoServer ----------------------------
(* Instances of EchoServer for TLC. *)
EXTENDS EchoServer

CONSTANTS c1, c2, c3

\* One letter, or one letter with a byte of the stack behind it that is not text.
MCName == [c \in Clients |-> IF c = c1 THEN <<Byte(71), Byte(255)>> ELSE <<Byte(71)>>]
MCMaxRequests == [c \in Clients |-> IF c = c2 THEN 2 ELSE 1]

\* What the theorem about the answers asks of the encoding holds of these names and
\* numbers.
ASSUME CodecAssumption == NumbersSurvive
=============================================================================
