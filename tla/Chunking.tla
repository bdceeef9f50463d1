------------------------------ MODULE Chunking ------------------------------
(***************************************************************************)
(* ChunkMessage() (Support.cpp): cut a message after every "endm", then    *)
(* put neighbours together again while the result is below the limit.  A   *)
(* message is a sequence of tokens; a piece <<f, t>> is its tokens f+1..t. *)
(***************************************************************************)
EXTENDS Integers, Sequences, FiniteSets

CONSTANTS
    Messages,   \* the messages of one instance
    Limit,
    Word        \* size_t is an integer modulo Word

Tokens == {"endm", "scrp ", "x"}    \* of 4, 5 and 1 bytes

ASSUME MessagesAssumption == Messages \subseteq Seq(Tokens)
ASSUME LimitAssumption == Limit \in Nat /\ Word \in Nat /\ Word > 5

VARIABLES
    message,
    chunks,
    start,      \* tokens cut off so far
    i,          \* the index of the merging loop
    chunkPc     \* "cut", "merge" or "done"

chunkVars == <<message, chunks, start, i, chunkPc>>

Count(m, k, t) == Cardinality({j \in 1..k : m[j] = t})

(* Bytes before the k-th cut position.                                      *)
Offset(m) ==
    [k \in 0..Len(m) |->
        4 * Count(m, k, "endm") + 5 * Count(m, k, "scrp ") + Count(m, k, "x")]

Size(f, t) == Offset(message)[t] - Offset(message)[f]

(* The size of a message is a size_t.                                       *)
ASSUME SizeAssumption == \A m \in Messages : Offset(m)[Len(m)] < Word

ChunkInit ==
    /\ message \in Messages
    /\ chunks = <<>>
    /\ start = 0
    /\ i = 1
    /\ chunkPc = "cut"

(* find("endm", start)                                                      *)
NextEnd(k) ==
    /\ k \in (start + 1)..Len(message)
    /\ message[k] = "endm"
    /\ \A j \in (start + 1)..(k - 1) : message[j] # "endm"

Cut ==
    /\ chunkPc = "cut"
    /\ \E k \in 1..Len(message) :
          /\ NextEnd(k)
          /\ chunks' = Append(chunks, <<start, k>>)
          /\ start' = k
    /\ UNCHANGED <<message, i, chunkPc>>

(* Mutant of TailKept: the unsigned subtraction does not wrap.              *)
TailKeptSigned == Offset(message)[start] <= Size(0, Len(message)) - 5

(* start <= message.size()-5, in unsigned arithmetic: what is left after    *)
(* the last endm is kept if it has five bytes, or if the message has not.   *)
TailKept ==
    Offset(message)[start] <= (Size(0, Len(message)) + Word - 5) % Word

(* Mutant of CutTail: the loop is left only if there is a tail to keep.     *)
CutTailUnbroken ==
    /\ chunkPc = "cut"
    /\ \A k \in (start + 1)..Len(message) : message[k] # "endm"
    /\ IF TailKept
       THEN /\ chunks' = Append(chunks, <<start, Len(message)>>)
            /\ chunkPc' = "merge"
       ELSE UNCHANGED <<chunks, chunkPc>>
    /\ UNCHANGED <<message, start, i>>

CutTail ==
    /\ chunkPc = "cut"
    /\ \A k \in (start + 1)..Len(message) : message[k] # "endm"
    /\ chunks' = IF TailKept THEN Append(chunks, <<start, Len(message)>>)
                 ELSE chunks
    /\ chunkPc' = "merge"
    /\ UNCHANGED <<message, start, i>>

Joined == <<chunks[i][1], chunks[i+1][2]>>

(* Mutant of Merge: the size of the second piece alone is compared.         *)
MergeSecond ==
    /\ chunkPc = "merge"
    /\ i < Len(chunks)
    /\ Size(chunks[i+1][1], chunks[i+1][2]) < Limit
    /\ chunks' = SubSeq(chunks, 1, i - 1) \o <<Joined>>
                    \o SubSeq(chunks, i + 2, Len(chunks))
    /\ UNCHANGED <<message, start, i, chunkPc>>

Merge ==
    /\ chunkPc = "merge"
    /\ i < Len(chunks)
    /\ Size(Joined[1], Joined[2]) < Limit
    /\ chunks' = SubSeq(chunks, 1, i - 1) \o <<Joined>>
                    \o SubSeq(chunks, i + 2, Len(chunks))
    /\ UNCHANGED <<message, start, i, chunkPc>>

(* The inner loop goes round without doing anything, for ever.              *)
Spin ==
    /\ chunkPc = "merge"
    /\ i < Len(chunks)
    /\ Size(Joined[1], Joined[2]) >= Limit
    /\ UNCHANGED chunkVars

(* Mutant of Advance: the inner loop is left when two neighbours are too    *)
(* long together.                                                           *)
AdvancePast ==
    /\ chunkPc = "merge"
    /\ \/ i = Len(chunks)
       \/ i < Len(chunks) /\ Size(Joined[1], Joined[2]) >= Limit
    /\ i' = i + 1
    /\ UNCHANGED <<message, chunks, start, chunkPc>>

Advance ==
    /\ chunkPc = "merge"
    /\ i = Len(chunks)
    /\ i' = i + 1
    /\ UNCHANGED <<message, chunks, start, chunkPc>>

Finish ==
    /\ chunkPc = "merge"
    /\ i > Len(chunks)
    /\ chunkPc' = "done"
    /\ UNCHANGED <<message, chunks, start, i>>

ChunkNext == Cut \/ CutTail \/ Merge \/ Spin \/ Advance \/ Finish

ChunkSpec == ChunkInit /\ [][ChunkNext]_chunkVars

-----------------------------------------------------------------------------
(* Nothing is lost, doubled or reordered: the chunks follow each other from *)
(* the start of the message, and all that may be missing when the cutting   *)
(* is over is a tail of fewer than five bytes after the last endm           *)
(* (Support.cpp:59-73, :83-84).                                             *)
Contiguous ==
    /\ chunks # <<>> => chunks[1][1] = 0
    /\ \A k \in 1..(Len(chunks) - 1) : chunks[k][2] = chunks[k+1][1]
    /\ chunkPc # "cut" =>
          /\ chunks # <<>>
          /\ LET last == chunks[Len(chunks)][2]
             IN  \/ last = Len(message)
                 \/ last = start /\ Size(last, Len(message)) < 5

(* A chunk at or above the limit is one that could not be cut              *)
(* (Support.cpp:81).                                                        *)
ChunksFit ==
    \A k \in 1..Len(chunks) :
        LET f == chunks[k][1]
            t == chunks[k][2]
        IN  Size(f, t) < Limit \/ \A j \in (f + 1)..(t - 1) : message[j] # "endm"

(* The merging loop leaves one chunk or does not end: the loops of the      *)
(* callers over the chunks run once (PosixSMI.cpp:137, WindowsSMI.cpp:178). *)
OneChunk == chunkPc = "done" => Len(chunks) = 1

(* It ends when the whole message is below the limit.                       *)
Returns == Size(0, Len(message)) < Limit ~> chunkPc = "done"
=============================================================================
