------------------------------- MODULE MCGreeter -------------------------------
(* An instance of Greeter for TLC: a configuration for a new account and   *)
(* one whose name is taken by an account of the image.                     *)
EXTENDS Greeter

Names == [c \in Choices |-> c]
=============================================================================
