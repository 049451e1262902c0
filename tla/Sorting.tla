--------------------------------- MODULE Sorting ---------------------------------
(* Sets in order, as the handlers of gateway-go sort file names, drive ids *)
(* and user numbers.                                                       *)
EXTENDS Naturals, FiniteSets

\* The elements of a finite set of numbers, in order.
Sorted(S) ==
  CHOOSE q \in [1..Cardinality(S) -> S] : \A i, j \in 1..Cardinality(S) : i < j => q[i] < q[j]

================================================================================
