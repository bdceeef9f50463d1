------------------------------ MODULE TextConv ------------------------------
(***************************************************************************)
(* What SharedMemoryInterface::send() does to a message before an engine   *)
(* gets it: cp1252FromUtf8() always, cleanWhitespace() for DDE engines     *)
(* (SharedMemoryInterface.cpp:92-241).  A byte is one of a few kinds.      *)
(***************************************************************************)
EXTENDS Naturals, Sequences, FiniteSets, SequencesExt

(* ASCII bytes that matter, other ASCII, and the bytes of UTF-8: leaders,   *)
(* which stand for the character they begin, and continuations.  The        *)
(* characters are those of the switches, one of U+00A0 to U+00FF, which     *)
(* CP1252 has and the switches have not, and one that CP1252 has not.       *)
Ascii == {"a", "sp", "nl", "cr", "[", "]", "\\", "?"}
Unlisted == {"U+00E9", "U+1F600"}
TwoBytes == {"U+0152", "U+0153", "U+0160", "U+0161", "U+0178", "U+017D", "U+017E",
             "U+0192", "U+02C6", "U+02DC", "U+00E9"}
ThreeBytes == {"U+2013", "U+2014", "U+2018", "U+2019", "U+201A", "U+201C", "U+201D",
               "U+201E", "U+2020", "U+2021", "U+2022", "U+2026", "U+2030", "U+2039",
               "U+203A", "U+20AC", "U+2122"}
Leaders == TwoBytes \cup ThreeBytes \cup {"U+1F600"}
White == {"sp", "nl", "cr"}

Length(byte) == CASE byte \in TwoBytes -> 2 [] byte \in ThreeBytes -> 3
                  [] byte = "U+1F600" -> 4 [] OTHER -> 1

-----------------------------------------------------------------------------
(* The switch of cp1252FromUtf8(): the byte of a character.                 *)
ToCp1252(c) ==
    CASE c = "U+20AC" -> "x80" [] c = "U+201A" -> "x82" [] c = "U+0192" -> "x83"
      [] c = "U+201E" -> "x84" [] c = "U+2026" -> "x85" [] c = "U+2020" -> "x86"
      [] c = "U+2021" -> "x87" [] c = "U+02C6" -> "x88" [] c = "U+2030" -> "x89"
      [] c = "U+0160" -> "x8A" [] c = "U+2039" -> "x8B" [] c = "U+0152" -> "x8C"
      [] c = "U+017D" -> "x8E" [] c = "U+2018" -> "x91" [] c = "U+2019" -> "x92"
      [] c = "U+201C" -> "x93" [] c = "U+201D" -> "x94" [] c = "U+2022" -> "x95"
      [] c = "U+2013" -> "x96" [] c = "U+2014" -> "x97" [] c = "U+02DC" -> "x98"
      [] c = "U+2122" -> "x99" [] c = "U+0161" -> "x9A" [] c = "U+203A" -> "x9B"
      [] c = "U+0153" -> "x9C" [] c = "U+017E" -> "x9E" [] c = "U+0178" -> "x9F"
      [] OTHER -> "?"

(* The switch of utf8FromCp1252(): the character of a byte.  "Other         *)
(* characters map directly", says the comment on its default (:62), which   *)
(* makes them question marks.                                               *)
FromCp1252(b) ==
    CASE b = "x80" -> "U+20AC" [] b = "x82" -> "U+201A" [] b = "x83" -> "U+0192"
      [] b = "x84" -> "U+201E" [] b = "x85" -> "U+2026" [] b = "x86" -> "U+2020"
      [] b = "x87" -> "U+2021" [] b = "x88" -> "U+02C6" [] b = "x89" -> "U+2030"
      [] b = "x8A" -> "U+0160" [] b = "x8B" -> "U+2039" [] b = "x8C" -> "U+0152"
      [] b = "x8E" -> "U+017D" [] b = "x91" -> "U+2018" [] b = "x92" -> "U+2019"
      [] b = "x93" -> "U+201C" [] b = "x94" -> "U+201D" [] b = "x95" -> "U+2022"
      [] b = "x96" -> "U+2013" [] b = "x97" -> "U+2014" [] b = "x98" -> "U+02DC"
      [] b = "x99" -> "U+2122" [] b = "x9A" -> "U+0161" [] b = "x9B" -> "U+203A"
      [] b = "x9C" -> "U+0153" [] b = "x9E" -> "U+017E" [] b = "x9F" -> "U+0178"
      [] OTHER -> "?"

-----------------------------------------------------------------------------
(* How far the loop gets from byte k.  The continuation bytes are not       *)
(* looked at; if the message ends too early the leader counts alone.        *)
Step(str, k) ==
    IF k + Length(str[k]) - 1 <= Len(str) THEN Length(str[k]) ELSE 1

(* Mutant of Convert: a carriage return is passed on.                       *)
ConvertKeepingCr(byte) == IF byte \in Ascii THEN <<byte>> ELSE <<ToCp1252(byte)>>

(* ASCII as it is, less the carriage return; for all else, what the switch  *)
(* says.                                                                    *)
Convert(byte) ==
    CASE byte = "cr" -> <<>>
      [] byte \in Ascii \ {"cr"} -> <<byte>>
      [] OTHER -> <<ToCp1252(byte)>>

(* One turn of the loop; byte k may belong to a character already read.     *)
ConvertAt(str, st, k) ==
    LET n == Step(str, k)
    IN  IF k < st.next THEN st
        ELSE [next |-> k + n,
              out |-> st.out \o (IF n = Length(str[k]) THEN Convert(str[k])
                                 ELSE <<"?">>)]

(* The loop: its state after each byte.                                     *)
Converting(str) ==
    LET st[k \in 0..Len(str)] == IF k = 0 THEN [next |-> 1, out |-> <<>>]
                                 ELSE ConvertAt(str, st[k-1], k)
    IN  st

Cp1252FromUtf8(str) == Converting(str)[Len(str)].out

(* A character in UTF-8.                                                    *)
Encoded(c) == <<c>> \o [k \in 1..(Length(c) - 1) |-> "cont"]

(* Mutant of Expand: two bytes for whatever is not ASCII.                   *)
ExpandTwo(byte) ==
    CASE byte = "cr" -> <<>>
      [] byte \in Ascii \ {"cr"} -> <<byte>>
      [] OTHER -> IF FromCp1252(byte) = "?" THEN <<"?">>
                  ELSE <<FromCp1252(byte), "cont">>

Expand(byte) ==
    CASE byte = "cr" -> <<>>
      [] byte \in Ascii \ {"cr"} -> <<byte>>
      [] OTHER -> Encoded(FromCp1252(byte))

Utf8FromCp1252(str) == FlattenSeq([k \in DOMAIN str |-> Expand(str[k])])

-----------------------------------------------------------------------------
CleanStart == [out |-> <<>>, inString |-> FALSE, lastWhite |-> FALSE,
               skip |-> FALSE]

(* Mutant of InString: a run of white space is shortened in a string too.   *)
InStringShort(str, st, k) ==
    [st EXCEPT !.out = IF str[k] = "sp" /\ k > 1 /\ str[k-1] = "sp" THEN @
                       ELSE Append(@, str[k]),
               !.inString = ~(str[k] = "]" /\ k > 1 /\ str[k-1] # "\\")]

(* Inside a string all is copied; "]" ends it, unless after a backslash.    *)
InString(str, st, k) ==
    [st EXCEPT !.out = Append(@, str[k]),
               !.inString = ~(str[k] = "]" /\ k > 1 /\ str[k-1] # "\\")]

(* Outside, a run of white space is cut down to its first character.  CRLF  *)
(* becomes a line feed that is written even after white space.              *)
OutOfString(str, st, k) ==
    CASE str[k] = "[" ->
            [st EXCEPT !.out = Append(@, "["), !.inString = TRUE, !.lastWhite = FALSE]
      [] str[k] = "cr" ->
            IF k < Len(str) /\ str[k+1] = "nl"
            THEN [st EXCEPT !.out = Append(@, "nl"), !.skip = TRUE, !.lastWhite = TRUE]
            ELSE st
      [] str[k] \in White \ {"cr"} ->
            IF st.lastWhite THEN st
            ELSE [st EXCEPT !.out = Append(@, str[k]), !.lastWhite = TRUE]
      [] OTHER ->
            [st EXCEPT !.out = Append(@, str[k]), !.lastWhite = FALSE]

CleanAt(str, st, k) ==
    IF st.skip THEN [st EXCEPT !.skip = FALSE]
    ELSE IF st.inString THEN InString(str, st, k)
    ELSE OutOfString(str, st, k)

(* The loop: its state after each byte.                                     *)
Scan(str) ==
    LET st[k \in 0..Len(str)] == IF k = 0 THEN CleanStart
                                 ELSE CleanAt(str, st[k-1], k)
    IN  st

Scanned(str) == Scan(str)[Len(str)]

(* A string left open is closed.                                            *)
CleanWhitespace(str) ==
    Scanned(str).out \o (IF Scanned(str).inString THEN <<"]">> ELSE <<>>)

DdeText(str) == CleanWhitespace(Cp1252FromUtf8(str))

-----------------------------------------------------------------------------
(* UTF-8 text, as the characters it is made of.                             *)
Characters == {"a", "cr"} \cup Leaders

Encode(text) == FlattenSeq([k \in DOMAIN text |-> Encoded(text[k])])

(* What is left of a text: no carriage returns, and of the characters that  *)
(* are not ASCII those of the switches.                                     *)
KeptAs(c) ==
    IF c = "cr" THEN <<>> ELSE IF c \in Unlisted THEN <<"?">> ELSE <<c>>

Kept(text) == FlattenSeq([k \in DOMAIN text |-> KeptAs(text[k])])

(* What an engine echoes comes back to the webapp as the UTF-8 it sent, as  *)
(* far as the switches go: 27 characters have a byte in the one, and the    *)
(* other gives that byte back as the same character                         *)
(* (SharedMemoryInterface.cpp:31-63, :125-154).  Accented letters come back *)
(* as question marks, which are CP1252 too (README.md:6).                   *)
EchoKept(text) ==
    Utf8FromCp1252(Cp1252FromUtf8(Encode(text))) = Encode(Kept(text))

(* The engine's idea of a string: "\]" still ends it                        *)
(* (SharedMemoryInterface.cpp:163-164).  Whether it is in one, byte by byte.*)
EngineInside(str) ==
    LET in[k \in 0..Len(str)] ==
            IF k = 0 THEN FALSE
            ELSE IF in[k-1] THEN str[k] # "]" ELSE str[k] = "["
    IN  in

(* The bytes outside a string, for the engine.                              *)
Outside(str) == {k \in DOMAIN str : ~EngineInside(str)[k-1]}

(* Up to byte k there is a bracket that ends a string for the engine, and   *)
(* after a backslash not for cleanWhitespace() (:181).                      *)
EscapedBracket(str, k) ==
    \E j \in 2..k : str[j-1] = "\\" /\ str[j] = "]" /\ j \notin Outside(str)

(* "multiple whitespace characters in a row outside a string causes a       *)
(* crash" (SharedMemoryInterface.cpp:165): a DDE engine gets none before    *)
(* the first escaped bracket.  After one it may: "[a\]  b" is passed on.    *)
(* cleanWhitespace() alone does not see to it, a CRLF after a space gives   *)
(* two; that it never meets a CR is cp1252FromUtf8()'s doing.               *)
NoDoubleSpace(str) ==
    LET out == DdeText(str)
    IN  \A k \in 1..(Len(out) - 1) :
            {k, k + 1} \subseteq Outside(out) /\ {out[k], out[k+1]} \subseteq White
                => EscapedBracket(out, k)

(* What a DDE engine gets is clean already: every string is closed, for     *)
(* the engine, and cleaning it again, as happens to an answer that a webapp *)
(* sends back, changes nothing.  Cleaning again does add a bracket to a     *)
(* message that breaks off after a backslash in a string: the one put       *)
(* behind it counts as escaped (SharedMemoryInterface.cpp:181, :214).       *)
CleanIsStable(str) ==
    LET in  == Cp1252FromUtf8(str)
        out == DdeText(str)
    IN  /\ ~EngineInside(out)[Len(out)]
        /\ \/ CleanWhitespace(out) = out
           \/ Scanned(in).inString /\ in[Len(in)] = "\\"

(* Where the scan of str is outside a string.  A string of the engine's is  *)
(* always inside.                                                           *)
ScannedOutside(str) == {k \in DOMAIN str : ~Scan(str)[k-1].inString}

(* What is not white space outside a string, up to each byte.               *)
HardTo(str) ==
    LET out[k \in 0..Len(str)] ==
            IF k = 0 THEN <<>>
            ELSE IF k \in ScannedOutside(str) /\ str[k] \in White THEN out[k-1]
            ELSE Append(out[k-1], str[k])
    IN  out

Hard(str) == HardTo(str)[Len(str)]

(* Only white space outside strings is lost: strings arrive whole.          *)
StringsKept(str) ==
    LET in == Cp1252FromUtf8(str)
    IN  Hard(DdeText(str)) =
            Hard(in) \o (IF Scanned(in).inString THEN <<"]">> ELSE <<>>)
=============================================================================
