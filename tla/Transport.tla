------------------------------ MODULE Transport ------------------------------
(***************************************************************************)
(* What a hosted embedding provider does with its data: pictures are cut   *)
(* into batches (embedding/transport.py), and the rows of an answer are    *)
(* put back into the order of the pictures (embedding/hosted.py).  The     *)
(* pictures of a call are 1, ..., n, and the vector of picture i is i.     *)
(***************************************************************************)
EXTENDS Naturals, Sequences, FiniteSets, SequencesExt

CONSTANTS
    Sizes,        \* numbers of pictures a call may bring
    MaxBatch,     \* transport.MAX_BATCH
    Concurrency,  \* settings.get_embed_concurrency()
    MaxTries      \* transport._MAX_TRIES

ASSUME EmbeddingAssumption ==
    /\ Sizes \subseteq Nat
    /\ MaxBatch \in Nat \ {0} /\ Concurrency \in Nat \ {0} /\ MaxTries \in Nat \ {0}

\* The numbers 1, ..., n: a call's pictures, and the vectors it ought to return.
UpTo(n) == [i \in 1 .. n |-> i]

\* transport.batches: consecutive slices of MaxBatch pictures, the last one shorter.
Slice(n, k) == SubSeq(UpTo(n), (k - 1) * MaxBatch + 1, IF k * MaxBatch <= n THEN k * MaxBatch ELSE n)

Batches(n) ==
    [k \in 1 .. (n + MaxBatch - 1) \div MaxBatch |->
        [pictures |-> Slice(n, k), at |-> "queued", tries |-> 0, vectors |-> <<>>]]

(* The rows of a good answer: indexed, in any order of arrival, or without *)
(* an index and then in the order of the request.                          *)
Answers(pictures) ==
    LET n == Len(pictures) IN
    {[i \in 1 .. n |-> [index |-> arrival[i], vector |-> pictures[arrival[i]]]] :
        arrival \in {f \in [1 .. n -> 1 .. n] : IsInjective(f)}}
    \cup {[i \in 1 .. n |-> [index |-> 0, vector |-> pictures[i]]]}

\* Bug: rows are taken in the order they arrive.
ByArrival(rows) == [i \in DOMAIN rows |-> rows[i].vector]

\* _vectors_of: sorted by index, a stable sort.
Before(rows, a, b) ==
    rows[a].index < rows[b].index \/ (rows[a].index = rows[b].index /\ a < b)

ByIndex(rows) ==
    [i \in DOMAIN rows |->
        rows[CHOOSE a \in DOMAIN rows :
               Cardinality({b \in DOMAIN rows : Before(rows, b, a)}) = i - 1].vector]

=============================================================================
