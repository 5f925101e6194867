---------------------------- MODULE MCEventStream ----------------------------
(* Instances of EventStream for TLC. *)
EXTENDS EventStream

(* One frame; three chunks of the halved size, the last one shorter; and a *)
(* size that is halved again for the third chunk, six in all.              *)
SomeSizes == {1, 10, 12}

(* A numeral has two digits from 2 on. *)
SomeDigits(n) == IF n < 2 THEN 0 ELSE 1
=============================================================================
