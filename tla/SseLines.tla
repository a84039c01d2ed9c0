------------------------------- MODULE SseLines -------------------------------
(***************************************************************************)
(* BytesLineDecoder (src/libs/sdk-py/langgraph_sdk/sse.py): the bytes of a    *)
(* stream arrive in chunks cut anywhere, between the CR and the LF of one     *)
(* line end too, and lines come out.                                        *)
(***************************************************************************)
EXTENDS Naturals, Sequences, SequencesExt

CONSTANTS
    Other,       \* bytes that end no line
    MaxBytes     \* bound: bytes of the stream

CR == "CR"
LF == "LF"
Bytes == Other \cup {CR, LF}

VARIABLES
    fed,         \* the bytes decoded so far
    buffer, trailingCr,    \* BytesLineDecoder.buffer, .trailing_cr
    out          \* the lines yielded

vars == <<fed, buffer, trailingCr, out>>

\* bytes.splitlines: a line ends at LF, at CR, or at CR LF; what follows the last
\* line end is a line if there is any.
LineStep(acc, b) ==
    IF b = LF /\ acc.cr THEN [acc EXCEPT !.cr = FALSE]
    ELSE IF b \in {CR, LF}
         THEN [lines |-> Append(acc.lines, acc.rest), rest |-> <<>>, cr |-> b = CR]
         ELSE [acc EXCEPT !.rest = Append(@, b), !.cr = FALSE]

\* The lines that have ended, what follows them, and whether a CR was the last byte.
Scan(text) ==
    LET read[n \in 0 .. Len(text)] ==
          IF n = 0 THEN [lines |-> <<>>, rest |-> <<>>, cr |-> FALSE]
          ELSE LineStep(read[n - 1], text[n])
    IN  read[Len(text)]

SplitLines(text) ==
    LET end == Scan(text)
    IN  IF end.rest = <<>> THEN end.lines ELSE Append(end.lines, end.rest)

Init == fed = <<>> /\ buffer = <<>> /\ trailingCr = FALSE /\ out = <<>>

KeepCr(chunk) ==        \* mutant: a CR at the end of a chunk is decoded at once
    [text |-> chunk, cr |-> FALSE]

\* A CR at the end of a chunk goes in front of the next.
HoldCr(chunk) ==
    LET text == IF trailingCr THEN <<CR>> \o chunk ELSE chunk
    IN  IF Last(text) = CR THEN [text |-> Front(text), cr |-> TRUE]
        ELSE [text |-> text, cr |-> FALSE]

Join(text) ==
    LET split == SplitLines(text)
        lines == <<buffer \o Head(split)>> \o Tail(split)
    IN  IF Last(text) \in {CR, LF}
        THEN [lines |-> lines, buffer |-> <<>>]
        ELSE [lines |-> Front(lines), buffer |-> Last(lines)]

Decode(chunk) ==
    LET held == HoldCr(chunk)
        joined == Join(held.text)
    IN  /\ fed' = fed \o chunk
        /\ trailingCr' = held.cr
        /\ IF held.text = <<>>
           THEN UNCHANGED <<buffer, out>>
           ELSE buffer' = joined.buffer /\ out' = out \o joined.lines

Chunks == UNION {[1 .. n -> Bytes] : n \in 1 .. MaxBytes}

Next == \E chunk \in Chunks : Len(fed) + Len(chunk) <= MaxBytes /\ Decode(chunk)

Spec == Init /\ [][Next]_vars

\* flush, when the response ends.
Flush == IF buffer = <<>> /\ ~trailingCr THEN <<>> ELSE <<buffer>>

-----------------------------------------------------------------------------
(* Properties                                                              *)

\* However the stream is cut into chunks, the lines are those of the whole.
ChunksDoNotMatter == out \o Flush = SplitLines(fed)

\* A line that ended with LF is not held back until the next chunk comes.
NoLineHeldBack == fed # <<>> /\ Last(fed) = LF => Flush = <<>>
=============================================================================
