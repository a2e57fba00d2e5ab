------------------------------- MODULE MCCli -------------------------------
EXTENDS Cli
CONSTANTS a, b
MCNamed == <<a>>

\* Two clis under the default name, the remote one under another.
MCAs == [c \in Clis |-> IF c \in Remote THEN "@remote" ELSE "@manager"]
=============================================================================
