--------------------------- MODULE ChunkingProofs ---------------------------
(***************************************************************************)
(* Proofs about ChunkMessage(), for every message, limit and word size.    *)
(***************************************************************************)
EXTENDS Chunking, FiniteSetTheorems, TLAPS

(* Offsets are numbers, and the first is zero.                              *)
LEMMA OffsetType ==
    ASSUME NEW m \in Seq(Tokens)
    PROVE  /\ \A k \in 0..Len(m) : Offset(m)[k] \in Nat
           /\ Offset(m)[0] = 0
  <1>1. ASSUME NEW k \in 0..Len(m), NEW t
        PROVE  Count(m, k, t) \in Nat
    <2>1. IsFiniteSet(1..k)
      BY FS_Interval
    <2>2. {j \in 1..k : m[j] = t} \subseteq 1..k
      OBVIOUS
    <2> QED  BY <2>1, <2>2, FS_Subset, FS_CardinalityType DEF Count
  <1>2. \A t : Count(m, 0, t) = 0
    <2>1. \A t : {j \in 1..0 : m[j] = t} = {}
      OBVIOUS
    <2> QED  BY <2>1, FS_EmptySet DEF Count
  <1>3. Len(m) \in Nat
    OBVIOUS
  <1>4. ASSUME NEW k \in 0..Len(m)
        PROVE  Offset(m)[k] = 4 * Count(m, k, "endm") + 5 * Count(m, k, "scrp ")
                                 + Count(m, k, "x")
    BY <1>4 DEF Offset
  <1>5. ASSUME NEW k \in 0..Len(m)
        PROVE  Offset(m)[k] \in Nat
    <2>1. /\ Count(m, k, "endm") \in Nat /\ Count(m, k, "scrp ") \in Nat
          /\ Count(m, k, "x") \in Nat
      BY <1>1
    <2>2. Offset(m)[k] = 4 * Count(m, k, "endm") + 5 * Count(m, k, "scrp ")
                            + Count(m, k, "x")
      BY <1>4
    <2>3. \A a, b, c \in Nat : 4 * a + 5 * b + c \in Nat
      OBVIOUS
    <2> QED  BY <2>1, <2>2, <2>3, Zenon
  <1>6. Offset(m)[0] = 0
    <2>1. 0 \in 0..Len(m)
      BY <1>3
    <2>2. Offset(m)[0] = 4 * 0 + 5 * 0 + 0
      BY <1>2, <1>4, <2>1
    <2> QED  BY <2>2
  <1> QED  BY <1>5, <1>6

(* What the unsigned subtraction of ChunkMessage() yields.                  *)
LEMMA Wraps ==
    ASSUME NEW n \in Nat, n < Word
    PROVE  (n + Word - 5) % Word = IF n < 5 THEN n + Word - 5 ELSE n - 5
  <1> USE LimitAssumption DEF LimitAssumption
  <1>1. \A a \in 0..(Word - 1) : a % Word = a /\ (a + Word) % Word = a
    OBVIOUS
  <1> QED  BY <1>1

-----------------------------------------------------------------------------
(* The inductive invariant.                                                 *)
Pieces == (0..Len(message)) \X (0..Len(message))

ChunkType ==
    /\ message \in Messages
    /\ chunks \in Seq(Pieces)
    /\ start \in 0..Len(message)
    /\ i \in {1, 2}
    /\ chunkPc \in {"cut", "merge", "done"}

Phases ==
    /\ chunkPc = "cut" =>
          /\ i = 1
          /\ start = IF chunks = <<>> THEN 0 ELSE chunks[Len(chunks)][2]
    /\ chunkPc = "merge" => chunks # <<>> /\ (i = 1 \/ Len(chunks) = 1)
    /\ chunkPc = "done" => Len(chunks) = 1

IInv == ChunkType /\ Phases /\ Contiguous /\ ChunksFit

(* It holds initially.                                                      *)
LEMMA InitInv ==
    ASSUME ChunkInit
    PROVE  IInv
  BY MessagesAssumption
     DEF MessagesAssumption, ChunkInit, IInv, ChunkType, Phases, Contiguous, ChunksFit

(* A piece that ends at the next "endm".                                    *)
LEMMA CutStep ==
    ASSUME IInv, Cut
    PROVE  IInv'
  <1> USE DEF IInv
  <1>1. PICK k \in 1..Len(message) :
          /\ NextEnd(k) /\ chunks' = Append(chunks, <<start, k>>) /\ start' = k
          /\ chunkPc = "cut" /\ UNCHANGED <<message, i, chunkPc>>
    BY DEF Cut
  <1>2. message \in Seq(Tokens)
    BY MessagesAssumption DEF MessagesAssumption, ChunkType
  <1>3. /\ Len(chunks') = Len(chunks) + 1
        /\ \A j \in 1..Len(chunks) : chunks'[j] = chunks[j]
        /\ chunks'[Len(chunks) + 1] = <<start, k>>
        /\ Len(chunks) \in Nat /\ Len(message) \in Nat
    BY <1>1, <1>2 DEF ChunkType
  <1>4. ChunkType'
    BY <1>1, <1>2 DEF ChunkType, Pieces
  <1>5. Phases'
    BY <1>1, <1>3 DEF Phases
  <1>6. Contiguous'
    BY <1>1, <1>3 DEF Contiguous, Phases, ChunkType
  <1>7. ChunksFit'
    <2>1. \A j \in (start + 1)..(k - 1) : message[j] # "endm"
      BY <1>1 DEF NextEnd
    <2> QED  BY <1>1, <1>3, <2>1 DEF ChunksFit, Size
  <1> QED  BY <1>4, <1>5, <1>6, <1>7

(* The tail, kept or not.                                                   *)
LEMMA CutTailStep ==
    ASSUME IInv, CutTail
    PROVE  IInv'
  <1> USE DEF IInv
  <1>1. /\ \A k \in (start + 1)..Len(message) : message[k] # "endm"
        /\ chunks' = IF TailKept THEN Append(chunks, <<start, Len(message)>>)
                     ELSE chunks
        /\ chunkPc = "cut" /\ chunkPc' = "merge" /\ UNCHANGED <<message, start, i>>
    BY DEF CutTail
  <1>2. message \in Seq(Tokens) /\ Len(message) \in Nat
    BY MessagesAssumption DEF MessagesAssumption, ChunkType
  <1>3. CASE TailKept
    <2>1. /\ Len(chunks') = Len(chunks) + 1
          /\ \A j \in 1..Len(chunks) : chunks'[j] = chunks[j]
          /\ chunks'[Len(chunks) + 1] = <<start, Len(message)>>
          /\ Len(chunks) \in Nat
      BY <1>1, <1>2, <1>3 DEF ChunkType
    <2>2. ChunkType'
      BY <1>1, <1>2, <1>3 DEF ChunkType, Pieces
    <2>3. Phases'
      BY <1>1, <2>1 DEF Phases
    <2>4. Contiguous'
      <3>1. chunks'[1][1] = 0 /\ chunks' # <<>>
        BY <1>1, <2>1 DEF Contiguous, Phases
      <3>2. \A k \in 1..(Len(chunks') - 1) : chunks'[k][2] = chunks'[k+1][1]
        <4>1. CASE chunks = <<>>
          BY <2>1, <4>1
        <4>2. CASE chunks # <<>>
          <5>1. chunks[Len(chunks)][2] = start /\ Len(chunks) > 0
            BY <1>1, <2>1, <4>2 DEF Phases, ChunkType
          <5>2. \A k \in 1..(Len(chunks) - 1) : chunks[k][2] = chunks[k+1][1]
            BY DEF Contiguous
          <5> QED  BY <2>1, <5>1, <5>2
        <4> QED  BY <4>1, <4>2
      <3>3. chunks'[Len(chunks')][2] = Len(message)
        BY <2>1
      <3> QED  BY <1>1, <3>1, <3>2, <3>3 DEF Contiguous
    <2>5. ChunksFit'
      <3>1. ASSUME NEW k \in 1..Len(chunks')
            PROVE  \/ Size(chunks'[k][1], chunks'[k][2]) < Limit
                   \/ \A j \in (chunks'[k][1] + 1)..(chunks'[k][2] - 1) :
                          message[j] # "endm"
        <4>1. CASE k \in 1..Len(chunks)
          BY <2>1, <4>1 DEF ChunksFit
        <4>2. CASE k = Len(chunks) + 1
          BY <1>1, <1>2, <2>1, <4>2 DEF ChunkType
        <4> QED  BY <2>1, <4>1, <4>2
      <3> QED  BY <1>1, <3>1 DEF ChunksFit, Size
    <2> QED  BY <2>2, <2>3, <2>4, <2>5
  <1>4. CASE ~TailKept
    <2> DEFINE n == Offset(message)[Len(message)]
               s == Offset(message)[start]
    <2>1. n \in Nat /\ s \in Nat /\ Offset(message)[0] = 0
      BY <1>2, OffsetType DEF ChunkType
    <2>2. n < Word
      BY SizeAssumption DEF SizeAssumption, ChunkType
    <2>3. Size(0, Len(message)) = n /\ Size(start, Len(message)) = n - s
      BY <2>1 DEF Size
    <2>4. ~(s <= (n + Word - 5) % Word)
      BY <1>4, <2>3 DEF TailKept
    <2>5. n - s < 5 /\ s # 0
      <3> HIDE DEF n, s
      <3> QED
        BY <2>1, <2>2, <2>4, Wraps, LimitAssumption DEF LimitAssumption
    <2>6. chunks # <<>>
      BY <2>1, <2>5, <1>1 DEF Phases
    <2>7. ChunkType'
      BY <1>1, <1>4 DEF ChunkType, Pieces
    <2>8. Phases'
      BY <1>1, <1>4, <2>6 DEF Phases
    <2>9. Contiguous'
      BY <1>1, <1>4, <2>3, <2>5, <2>6 DEF Contiguous, Phases, Size
    <2>10. ChunksFit'
      BY <1>1, <1>4 DEF ChunksFit, Size
    <2> QED  BY <2>7, <2>8, <2>9, <2>10
  <1> QED  BY <1>3, <1>4

(* Two neighbours become one.                                               *)
LEMMA MergeStep ==
    ASSUME IInv, Merge
    PROVE  IInv'
  <1> USE DEF IInv
  <1>1. /\ i = 1 /\ 1 < Len(chunks) /\ Len(chunks) \in Nat
        /\ chunks \in Seq(Pieces) /\ Joined \in Pieces
        /\ Joined[1] = chunks[1][1] /\ Joined[2] = chunks[2][2]
        /\ Size(Joined[1], Joined[2]) < Limit
        /\ chunkPc = "merge" /\ UNCHANGED <<message, start, i, chunkPc>>
    <2>1. /\ i = 1 /\ 1 < Len(chunks) /\ Len(chunks) \in Nat
          /\ chunks \in Seq(Pieces)
      <3> DEFINE n == Len(chunks)
      <3>1. (i = 1 \/ i = 2) /\ i < n /\ (i = 1 \/ n = 1)
        BY DEF Merge, Phases, ChunkType
      <3>2. chunks \in Seq(Pieces)
        BY DEF ChunkType
      <3>3. n \in Nat
        BY <3>2
      <3>4. i = 1 /\ 1 < n
        <4> HIDE DEF n
        <4> QED  BY <3>1, <3>3
      <3> QED  BY <3>2, <3>3, <3>4, Zenon
    <2>2. Joined = <<chunks[1][1], chunks[2][2]>>
      BY <2>1 DEF Joined
    <2>3. chunks[1] \in Pieces /\ chunks[2] \in Pieces
      BY <2>1
    <2>4. Joined \in Pieces /\ Joined[1] = chunks[1][1] /\ Joined[2] = chunks[2][2]
      BY <2>2, <2>3 DEF Pieces
    <2> QED  BY <2>1, <2>4 DEF Merge
  <1>2. chunks' = <<Joined>> \o SubSeq(chunks, 3, Len(chunks))
    <2>1. SubSeq(chunks, 1, 0) = <<>> /\ <<Joined>> \in Seq(Pieces)
      BY <1>1
    <2>2. <<>> \o <<Joined>> = <<Joined>>
      BY <2>1
    <2>3. i - 1 = 0 /\ i + 2 = 3
      BY <1>1
    <2> QED  BY <2>1, <2>2, <2>3 DEF Merge
  <1>3. /\ chunks' \in Seq(Pieces)
        /\ Len(chunks') = Len(chunks) - 1
        /\ chunks'[1] = Joined
        /\ \A k \in 2..(Len(chunks) - 1) : chunks'[k] = chunks[k+1]
    <2> DEFINE n == Len(chunks)
               t == SubSeq(chunks, 3, n)
    <2>1. /\ chunks \in Seq(Pieces) /\ Joined \in Pieces
          /\ n \in Nat /\ 1 < n
      BY <1>1
    <2>2. /\ t \in Seq(Pieces) /\ Len(t) = n - 2
          /\ \A k \in 1..(n - 2) : t[k] = chunks[k+2]
      <3>1. \A j \in 3..n : chunks[j] \in Pieces
        BY <2>1
      <3>2. n - 3 + 1 = n - 2 /\ n - 2 \in Nat
        <4> HIDE DEF n
        <4> QED  BY <2>1
      <3>3. t = [k \in 1..(n - 2) |-> chunks[k + 2]]
        BY <2>1, <3>2
      <3> QED  BY <2>1, <3>1, <3>2, <3>3
    <2>3. /\ chunks' = <<Joined>> \o t /\ <<Joined>> \in Seq(Pieces)
          /\ Len(<<Joined>>) = 1 /\ <<Joined>>[1] = Joined
      BY <1>2, <2>1
    <2> HIDE DEF t
    <2>4. chunks' \in Seq(Pieces) /\ Len(chunks') = 1 + (n - 2)
      BY <2>1, <2>2, <2>3
    <2>5. chunks'[1] = Joined
      BY <2>1, <2>2, <2>3
    <2>6. ASSUME NEW k \in 2..(n - 1)
          PROVE  chunks'[k] = chunks[k+1]
      <3>1. k - 1 \in 1..(n - 2) /\ (k - 1) + 2 = k + 1
        BY <2>1
      <3>2. chunks'[k] = t[k - 1]
        BY <2>1, <2>2, <2>3
      <3> QED  BY <2>2, <3>1, <3>2
    <2>7. 1 + (n - 2) = n - 1
      <3> HIDE DEF n
      <3> QED  BY <2>1
    <2> QED  BY <2>4, <2>5, <2>6, <2>7
  <1>4. ChunkType'
    BY <1>1, <1>3 DEF ChunkType, Pieces
  <1>5. Phases'
    BY <1>1, <1>3 DEF Phases
  <1>6. Contiguous'
    <2>1. chunks'[Len(chunks')][2] = chunks[Len(chunks)][2]
      <3>1. CASE Len(chunks) = 2
        BY <1>1, <1>3, <3>1
      <3>2. CASE Len(chunks) > 2
        <4>1. Len(chunks) - 1 \in 2..(Len(chunks) - 1)
          BY <1>1, <3>2
        <4>2. chunks'[Len(chunks) - 1] = chunks[(Len(chunks) - 1) + 1]
          BY <1>3, <4>1
        <4>3. (Len(chunks) - 1) + 1 = Len(chunks)
          BY <1>1
        <4> QED  BY <1>3, <4>2, <4>3
      <3>3. Len(chunks) = 2 \/ Len(chunks) > 2
        <4> DEFINE n == Len(chunks)
        <4>1. n \in Nat /\ 1 < n
          BY <1>1
        <4>2. n = 2 \/ n > 2
          <5> HIDE DEF n
          <5> QED  BY <4>1
        <4> QED  BY <4>2
      <3> QED  BY <3>1, <3>2, <3>3
    <2>2. ASSUME NEW k \in 1..(Len(chunks') - 1)
          PROVE  chunks'[k][2] = chunks'[k+1][1]
      <3>1. k + 1 \in 2..(Len(chunks) - 1)
        BY <1>1, <1>3
      <3>2. chunks'[k+1] = chunks[(k+1)+1]
        BY <1>3, <3>1
      <3>3. chunks[k+1][2] = chunks[(k+1)+1][1]
        BY <1>1, <3>1 DEF Contiguous
      <3>4. chunks'[k][2] = chunks[k+1][2]
        <4>1. CASE k = 1
          BY <1>1, <1>3, <4>1
        <4>2. CASE k > 1
          BY <1>1, <1>3, <3>1, <4>2
        <4> QED  BY <1>1, <1>3, <4>1, <4>2
      <3> QED  BY <3>2, <3>3, <3>4
    <2> QED  BY <1>1, <1>3, <2>1, <2>2 DEF Contiguous, Size
  <1>7. ChunksFit'
    <2>1. ASSUME NEW k \in 1..Len(chunks')
          PROVE  \/ Size(chunks'[k][1], chunks'[k][2]) < Limit
                 \/ \A j \in (chunks'[k][1] + 1)..(chunks'[k][2] - 1) :
                        message[j] # "endm"
      <3>1. CASE k = 1
        BY <1>1, <1>3, <3>1
      <3>2. CASE k > 1
        <4>1. chunks'[k] = chunks[k+1] /\ k + 1 \in 1..Len(chunks)
          BY <1>1, <1>3, <3>2
        <4> QED  BY <4>1 DEF ChunksFit
      <3> QED  BY <1>1, <1>3, <3>1, <3>2
    <2> QED  BY <1>1, <2>1 DEF ChunksFit, Size
  <1> QED  BY <1>4, <1>5, <1>6, <1>7

(* It is inductive.                                                         *)
LEMMA StepInv ==
    ASSUME IInv, [ChunkNext]_chunkVars
    PROVE  IInv'
  <1>1. CASE Advance \/ Finish
    <2> USE <1>1 DEF Advance, Finish, IInv
    <2>1. /\ chunks # <<>> /\ Len(chunks) \in Nat \ {0}
          /\ i \in {1, 2} /\ (i = 1 \/ Len(chunks) = 1)
      BY DEF Phases, ChunkType
    <2>2. UNCHANGED <<message, chunks, start>> /\ i' \in {i, i + 1}
      OBVIOUS
    <2>3. (i = Len(chunks) /\ i' = i + 1) \/ (i > Len(chunks) /\ i' = i)
      OBVIOUS
    <2>4. Len(chunks) = 1 /\ i' = 2
      <3> DEFINE n == Len(chunks)
      <3>1. /\ n \in Nat \ {0} /\ (i = 1 \/ i = 2) /\ (i = 1 \/ n = 1)
            /\ (i = n /\ i' = i + 1) \/ (i > n /\ i' = i)
        BY <2>1, <2>3
      <3> HIDE DEF n
      <3>2. n = 1 /\ i' = 2
        BY <3>1
      <3> QED  BY <3>2 DEF n
    <2>5. chunkPc' \in {"merge", "done"}
      OBVIOUS
    <2>6. ChunkType' /\ Phases'
      BY <2>1, <2>2, <2>4, <2>5 DEF ChunkType, Phases, Pieces
    <2>7. Contiguous'
      BY DEF Contiguous, Size
    <2>8. ChunksFit'
      BY DEF ChunksFit, Size
    <2> QED  BY <2>6, <2>7, <2>8
  <1>2. CASE Spin \/ UNCHANGED chunkVars
    <2> USE <1>2 DEF Spin, chunkVars, IInv
    <2>1. ChunkType' /\ Phases'
      BY DEF ChunkType, Phases, Pieces
    <2>2. Contiguous' /\ ChunksFit'
      BY DEF Contiguous, ChunksFit, Size
    <2> QED  BY <2>1, <2>2
  <1> QED  BY <1>1, <1>2, CutStep, CutTailStep, MergeStep DEF ChunkNext

-----------------------------------------------------------------------------
(* The invariant holds in every behaviour.                                  *)
LEMMA Inductive == ChunkSpec => []IInv
  <1> QED  BY InitInv, StepInv, PTL DEF ChunkSpec

(* Whatever the message, nothing of it is lost but a short tail.            *)
THEOREM NothingLost == ChunkSpec => []Contiguous
  <1>1. IInv => Contiguous
    BY DEF IInv
  <1> QED  BY <1>1, Inductive, PTL

(* No chunk that could have been cut is above the limit.                    *)
THEOREM AllFit == ChunkSpec => []ChunksFit
  <1>1. IInv => ChunksFit
    BY DEF IInv
  <1> QED  BY <1>1, Inductive, PTL

(* There is only one chunk, if ChunkMessage() returns at all.               *)
THEOREM OnlyOne == ChunkSpec => []OneChunk
  <1>1. IInv => OneChunk
    BY DEF IInv, Phases, OneChunk
  <1> QED  BY <1>1, Inductive, PTL
=============================================================================
