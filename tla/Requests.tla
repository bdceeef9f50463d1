------------------------------ MODULE Requests ------------------------------
(***************************************************************************)
(* What a binary message asks for: the layout OnMessageCallback() reads    *)
(* (WebsocketServer.cpp:237-273), and the arguments LocalServer::Parse()   *)
(* splits its string into (localserver.cpp:212-244).                       *)
(***************************************************************************)
EXTENDS Naturals, Sequences, FiniteSets, SequencesExt

CONSTANT Base       \* a byte is 0..Base-1

ASSUME BaseAssumption == Base \in Nat /\ Base > 2

-----------------------------------------------------------------------------
(* The frame.  Bytes are counted from 1; a std::string has a zero behind    *)
(* its last byte.                                                           *)
At(msg, k) == IF k = Len(msg) + 1 THEN 0 ELSE msg[k]

(* The first byte past the argument string, which begins at the fifth byte. *)
ArgEnd(msg) ==
    CHOOSE k \in 5..(Len(msg) + 1) :
        At(msg, k) = 0 /\ \A j \in 5..(k - 1) : msg[j] # 0

(* Mutant of HasData: five bytes after the string are not asked for.        *)
HasDataOneByte(msg) == ArgEnd(msg) < Len(msg) + 1

(* (c_str.end() + 5 < msg.end())                                            *)
HasData(msg) == ArgEnd(msg) + 5 < Len(msg) + 1

(* The number in four bytes, the lowest first.                              *)
Field(msg, k) ==
    At(msg, k) + Base * (msg[k+1] + Base * (msg[k+2] + Base * msg[k+3]))

(* The length is read from the zero that ends the string on.                *)
LengthBytes(msg) == ArgEnd(msg)..(ArgEnd(msg) + 3)

ByteLength(msg) == Field(msg, ArgEnd(msg))

Buffer(msg) == SubSeq(msg, ArgEnd(msg) + 4, Len(msg))

Refused == [refused |-> TRUE, arg |-> <<>>, data |-> <<>>]

(* What is passed on to ProcessMessage() or Parse().                        *)
Decode(msg) ==
    IF \/ Len(msg) < 5
       \/ HasData(msg) /\ Len(Buffer(msg)) # ByteLength(msg)
    THEN Refused
    ELSE [refused |-> FALSE,
          arg |-> SubSeq(msg, 5, ArgEnd(msg) - 1),
          data |-> IF HasData(msg) THEN Buffer(msg) ELSE <<>>]

(* No byte is read that is not the message's: neither for the length nor,   *)
(* later, as data (WebsocketServer.cpp:254-257).                            *)
ReadsInside(msg) ==
    Len(msg) >= 5 /\ HasData(msg) =>
        /\ LengthBytes(msg) \subseteq 1..Len(msg)
        /\ ArgEnd(msg) + 3 + Len(Buffer(msg)) = Len(msg)

(* The low byte of the length is the zero that ends the string: data is     *)
(* accepted only in multiples of 256 bytes (WebsocketServer.cpp:254, :257). *)
DataInMultiples(msg) ==
    LET r == Decode(msg)
    IN  ~r.refused /\ r.data # <<>> =>
            /\ Len(msg) = 4 + Len(r.arg) + 4 + Len(r.data)
            /\ \E q \in 0..Len(r.data) : Len(r.data) = Base * q

(* A frame as README.md:51-56 describes it: code, string and its zero, the  *)
(* length of the data in the four bytes after that zero, and the data.      *)
DocumentedData(msg) == Len(msg) - (ArgEnd(msg) + 4)

Documented(msg) ==
    /\ DocumentedData(msg) >= 0
    /\ Field(msg, ArgEnd(msg) + 1) = DocumentedData(msg)

(* The code agrees with README.md on such a frame only if it has no data.   *)
(* Up to 2^24 bytes of data, it refuses every one that has (the data of     *)
(* SAVE and QRCD): it takes the length to be 256 times what it is, and the  *)
(* last byte of the length for data (WebsocketServer.cpp:252-261).          *)
DocumentedDataRefused(msg) ==
    Len(msg) >= 5 /\ Documented(msg) =>
        /\ DocumentedData(msg) = 0 =>
              Decode(msg) = [refused |-> FALSE,
                             arg |-> SubSeq(msg, 5, ArgEnd(msg) - 1), data |-> <<>>]
        /\ DocumentedData(msg) > 0 /\ msg[ArgEnd(msg) + 4] = 0 => Decode(msg).refused

-----------------------------------------------------------------------------
(* Arguments.  A character is "a" (nothing special), "sp", or a quote.      *)
Chars == {"a", "sp", "dq", "sq"}
Quotes == {"dq", "sq"}

SplitStart == [tokens |-> <<>>, pos |-> 1, quote |-> "none", skip |-> FALSE]

Token(str, from, to) == SubSeq(str, from, to)

OpenQuote(str, st, k) ==
    [tokens |-> st.tokens, pos |-> k + 1, quote |-> str[k], skip |-> FALSE]

CloseQuote(str, st, k) ==
    [tokens |-> Append(st.tokens, Token(str, st.pos, k - 1)),
     pos |-> k + 2, quote |-> "none", skip |-> TRUE]

Space(str, st, k) ==
    [st EXCEPT !.tokens = IF k > st.pos THEN Append(@, Token(str, st.pos, k - 1))
                          ELSE @,
               !.pos = k + 1]

(* Mutant of SplitAt: either quote closes a string.                         *)
SplitAtAnyQuote(str, st, k) ==
    CASE st.skip -> [st EXCEPT !.skip = FALSE]
      [] ~st.skip /\ str[k] \in Quotes /\ st.quote = "none" ->
            OpenQuote(str, st, k)
      [] /\ ~st.skip /\ str[k] \in Quotes /\ st.quote # "none"
         /\ k = Len(str) \/ str[k+1] = "sp" -> CloseQuote(str, st, k)
      [] ~st.skip /\ str[k] = "sp" /\ st.quote = "none" -> Space(str, st, k)
      [] OTHER -> st

(* One turn of the loop.  A quote opens a string wherever it stands, and    *)
(* what came before it in the same word is forgotten; it closes one only    *)
(* before a space or at the end.                                            *)
SplitAt(str, st, k) ==
    CASE st.skip -> [st EXCEPT !.skip = FALSE]
      [] ~st.skip /\ str[k] \in Quotes /\ st.quote = "none" ->
            OpenQuote(str, st, k)
      [] /\ ~st.skip /\ str[k] = st.quote
         /\ k = Len(str) \/ str[k+1] = "sp" -> CloseQuote(str, st, k)
      [] ~st.skip /\ str[k] = "sp" /\ st.quote = "none" -> Space(str, st, k)
      [] OTHER -> st

(* The loop: its state after each character.                                *)
Splitting(str) ==
    LET st[k \in 0..Len(str)] == IF k = 0 THEN SplitStart
                                 ELSE SplitAt(str, st[k-1], k)
    IN  st

SplitArgs(str) ==
    LET end == Splitting(str)[Len(str)]
    IN  IF end.pos <= Len(str)
        THEN Append(end.tokens, Token(str, end.pos, Len(str)))
        ELSE end.tokens

(* An argument list in which every argument is quoted, with the quote that  *)
(* the argument does not hold.                                              *)
QuoteFor(arg) == IF Contains(arg, "dq") THEN "sq" ELSE "dq"

Quoted(args, k) ==
    (IF k = 1 THEN <<>> ELSE <<"sp">>)
        \o <<QuoteFor(args[k])>> \o args[k] \o <<QuoteFor(args[k])>>

Render(args) == FlattenSeq([k \in DOMAIN args |-> Quoted(args, k)])

(* Quoted arguments, with the spaces and the other quotes they hold, come   *)
(* back one by one as they were written; the paths of SAVE and MOVE depend  *)
(* on it (localserver.cpp:219-242).                                         *)
QuotedArgsKept(args) ==
    (\A k \in DOMAIN args : ~(Contains(args[k], "dq") /\ Contains(args[k], "sq")))
        => SplitArgs(Render(args)) = args
=============================================================================
