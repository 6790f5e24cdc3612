------------------------------- MODULE Inputs -------------------------------
(***************************************************************************)
(* The inputs of a pure algorithm, written one piece at a time: the        *)
(* subject says which algorithm, its alphabet which pieces there are.  The *)
(* modules that extend this one state what their algorithms make of an     *)
(* input, for every input up to a length.                                  *)
(***************************************************************************)
EXTENDS Naturals, Sequences

VARIABLES
  subject,   \* what is being written
  input      \* what of it is written

Write(pieces, longest) ==
  /\ Len(input) < longest
  /\ \E c \in pieces : input' = Append(input, c)
  /\ UNCHANGED subject
=============================================================================
