-------------------------------- MODULE Inputs -------------------------------
(***************************************************************************)
(* The input of one of the algorithms that are modelled as operators: a    *)
(* sequence that is given element by element, so that every input up to a  *)
(* length is a state.  The modules that extend this one name theirs.       *)
(***************************************************************************)
EXTENDS Integers, FiniteSets, Sequences

VARIABLES kind, input

Grow(k, elements, length) ==
  /\ kind = k /\ Len(input) < length
  /\ \E e \in elements : input' = Append(input, e)
  /\ UNCHANGED kind
==============================================================================
