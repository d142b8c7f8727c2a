------------------------------ MODULE KBucket ------------------------------
(***************************************************************************)
(* What a k-bucket promises to the rest of a node: a sequence of contacts  *)
(* that changes only by UpDate (table.go), in one indivisible step because *)
(* only the HandleTable goroutine touches it.  No pointers, no counter.    *)
(***************************************************************************)
EXTENDS Buckets

VARIABLE bucket

Init == bucket = << >>

Contacted(c) == \E headAnswers \in BOOLEAN :
                   bucket' = UpDate(bucket, c, headAnswers)

Next == \E c \in Contact : Contacted(c)

Spec == Init /\ [][Next]_bucket
============================================================================
