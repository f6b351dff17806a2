------------------------------- MODULE MCHello -------------------------------
(***************************************************************************)
(* Instances of Hello.tla.                                                 *)
(***************************************************************************)
EXTENDS Hello, SequencesExt

CONSTANTS Lengths, Tails, Bodies, MaxRecords

(* Where records of these lengths end. *)
EndsOf(lengths) ==
    [k \in DOMAIN lengths |-> FoldLeft(LAMBDA sum, n : sum + RecordHeader + n, 0,
                                      SubSeq(lengths, 1, k))]

MCStreams ==
    {[ends |-> EndsOf(l), tail |-> t, declared |-> d] :
        l \in UNION {[1 .. k -> Lengths] : k \in 0 .. MaxRecords}, t \in Tails, d \in Bodies}
=============================================================================
