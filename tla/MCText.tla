------------------------------- MODULE MCText -------------------------------
(***************************************************************************)
(* The pure parts of the program over bounded inputs: the loops of         *)
(* ChunkMessage() step by step, the others as operators on one input per   *)
(* initial state.                                                          *)
(***************************************************************************)
EXTENDS Chunking, Requests, TextConv

CONSTANTS
    MaxLen,     \* bound: characters of an input
    MaxFrame    \* bound: bytes of a binary message

ASSUME MaxLenAssumption == MaxLen \in Nat /\ MaxFrame \in Nat

VARIABLES frame, args, utf8, text

inputVars == <<frame, args, utf8, text>>

UpTo(n, S) == UNION {[1..k -> S] : k \in 0..n}

AllMessages == UpTo(5, Tokens)
Frames == UpTo(MaxFrame, 0..(Base - 1))
Words == UpTo(2, Chars)
(* A character of each length and kind.                                     *)
Sample == {"a", "cr", "U+0160", "U+20AC"} \cup Unlisted

NoInput == /\ frame = <<>> /\ args = <<>>
           /\ utf8 = <<>> /\ text = <<>>

(* The empty message, already chunked.                                      *)
NoMessage ==
    /\ message = <<>> /\ chunks = <<<<0, 0>>>>
    /\ start = 0 /\ i = 2 /\ chunkPc = "done"

MCInit ==
    \/ ChunkInit /\ NoInput
    \/ /\ NoMessage
       /\ \/ /\ frame \in Frames
             /\ args = <<>> /\ utf8 = <<>> /\ text = <<>>
          \/ /\ args \in UpTo(2, Words)
             /\ frame = <<>> /\ utf8 = <<>> /\ text = <<>>
          \/ /\ utf8 \in UpTo(MaxLen, Sample) \cup UpTo(2, Characters)
             /\ frame = <<>> /\ args = <<>> /\ text = <<>>
          \/ /\ text \in UpTo(MaxLen + 1, Ascii \ {"?"})
             /\ frame = <<>> /\ args = <<>> /\ utf8 = <<>>

MCNext ==
    \/ ChunkNext /\ UNCHANGED inputVars
    \/ chunkPc = "done" /\ UNCHANGED <<chunkVars, inputVars>>

MCSpec ==
    /\ MCInit
    /\ [][MCNext]_<<chunkVars, inputVars>>
    /\ WF_<<chunkVars, inputVars>>(MCNext)

(* Of the binary message.                                                   *)
FrameRead ==
    ReadsInside(frame) /\ DataInMultiples(frame) /\ DocumentedDataRefused(frame)
(* Of the argument string of a request.                                     *)
ArgsKept == QuotedArgsKept(args)
(* Of a text in UTF-8.                                                      *)
EngineEchoKept == EchoKept(utf8)
(* Of a text for a DDE engine.                                              *)
SentIsClean == NoDoubleSpace(text) /\ CleanIsStable(text)
(* Of a text for a DDE engine.                                              *)
StringsArrive == StringsKept(text)
=============================================================================
