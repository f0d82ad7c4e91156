---------------------------- MODULE CaborTokenizer ----------------------------
(***************************************************************************)
(* The tokenizer, language/tokenizer.c.  A text is a string; a scan s      *)
(* holds the cursor (from 1), the tokens found so far, how it ended ("ok", *)
(* "exited" or "undefined") and whether a character behind the end of the  *)
(* buffer was read.  A token is its text, and its type follows from that.  *)
(*                                                                         *)
(* An operator is any run of operator characters and of the words or, and  *)
(* and not, wherever they begin.  A run with one of those words and        *)
(* anything else is given up, and what begins behind it is read instead,   *)
(* unless it is too long for the array it is collected in.                 *)
(***************************************************************************)
EXTENDS Naturals, Sequences, FiniteSetsExt

CONSTANT MaxToken   \* CABOR_TOKENIZER_MAX_TOKEN_LENGTH

ASSUME MaxTokenAssumption == MaxToken \in Nat \ {0}

Characters(string) == {SubSeq(string, i, i) : i \in 1 .. Len(string)}

Blank       == Characters(" \n\r")
Digit       == Characters("0123456789")
Letter      == Characters("abcdefghijklmnopqrstuvwxyzABCDEFGHIJKLMNOPQRSTUVWXYZ_")
Sign        == Characters("+-*/=<>!%")
Punctuation == Characters("(){},;:")
OperatorWord == {"or", "and", "not"}

\* What the proofs need of these words.
ASSUME WordAssumption == \A w \in OperatorWord : Len(w) \in Nat \ {0}

Keyword     == {"if", "then", "else", "while", "return", "for", "do", "var"}
UnitToken   == "<UNIT>"   \* which the parser adds

At(text, i) == SubSeq(text, i, i)
Begins(text, i, word) ==
    i + Len(word) <= Len(text) + 1 /\ SubSeq(text, i, i + Len(word) - 1) = word

\* The type a token is given, get_token_type_identifier_or_keyword included.
Kind(token) ==
    LET first == At(token, 1)
    IN  IF token = UnitToken THEN "unit"
        ELSE CASE first \in Sign         -> "operator"
               [] token \in OperatorWord -> "operator"
               [] first \in Digit        -> "integer"
               [] first \in Punctuation  -> "punctuation"
               [] token \in Keyword      -> "keyword"
               [] OTHER                  -> "identifier"

\* The first position from i on with a character that is none of chars.
EndOf(text, i, chars) ==
    CHOOSE j \in i .. Len(text) + 1 :
        /\ \A k \in i .. j - 1 : At(text, k) \in chars
        /\ j <= Len(text) => At(text, j) \notin chars

\* match_comment: behind the comment that begins at i, or i.
EndOfComment(text, i) ==
    LET lines  == {j \in i + 2 .. Len(text) : At(text, j) = "\n"}
        blocks == {j \in i + 2 .. Len(text) - 1 : Begins(text, j, "*/")}
    IN  IF Begins(text, i, "//") /\ lines # {} THEN Min(lines) + 1
        ELSE IF Begins(text, i, "/*") /\ blocks # {} THEN Min(blocks) + 2
        ELSE i

\* A round of the loop of match_operator: behind the word or the sign at i, or i.
BehindSign(text, i) ==
    LET words == {w \in OperatorWord : Begins(text, i, w)}
    IN  IF words # {} THEN i + Len(CHOOSE w \in words : TRUE)
        ELSE IF i <= Len(text) /\ At(text, i) \in Sign THEN i + 1
        ELSE i

\* match_operator
EndOfOperator(text, i) ==
    LET end[j \in i .. Len(text) + 1] ==
            IF BehindSign(text, j) = j THEN j ELSE end[BehindSign(text, j)]
    IN  end[i]

IsOperator(text, from, to) ==
    /\ to > from
    /\ SubSeq(text, from, to - 1) \in OperatorWord \/ EndOf(text, from, Sign) = to

\* match_identifier
EndOfWord(text, i) ==
    IF EndOf(text, i, Letter) > i THEN EndOf(text, i, Letter \union Digit) ELSE i

\* Where or, and or not begins next to a sign or next to another.
Crowded(text) ==
    LET word(i) == \E w \in OperatorWord : Begins(text, i, w)
        sign(i) == i \in 1 .. Len(text) /\ At(text, i) \in Sign
    IN  \E i \in 1 .. Len(text), w \in OperatorWord :
            Begins(text, i, w) /\ (sign(i - 1) \/ sign(i + Len(w)) \/ word(i + Len(w)))

\* Mutant: the cursor goes one character too far behind a token.
TakeAndStep(s, text, from, to) ==
    IF to - from > MaxToken THEN [s EXCEPT !.end = "undefined"]
    ELSE IF to - from = MaxToken THEN [s EXCEPT !.end = "exited"]
    ELSE [s EXCEPT !.at = to + 1, !.toks = Append(@, SubSeq(text, from, to - 1))]

\* copy_to_out_token and append_token; a token that is too long runs out of
\* the array it is collected in before its length is looked at.
Take(s, text, from, to) ==
    IF to - from > MaxToken THEN [s EXCEPT !.end = "undefined"]
    ELSE IF to - from = MaxToken THEN [s EXCEPT !.end = "exited"]
    ELSE [s EXCEPT !.at = to, !.toks = Append(@, SubSeq(text, from, to - 1))]

Skip(s, to) == [s EXCEPT !.at = to]

\* Mutant: a comment ends with its last character, not behind it.
ScanShort(text, s) ==
    LET behind == EndOfComment(text, s.at)
        op     == EndOfOperator(text, s.at)
        word   == EndOfWord(text, op)
        number == EndOf(text, op, Digit)
    IN  IF s.end # "ok" \/ s.at > Len(text) THEN s
        ELSE IF At(text, s.at) \in Blank     THEN Skip(s, s.at + 1)
        ELSE IF behind > s.at                THEN Skip(s, behind - 1)
        ELSE IF op - s.at > MaxToken         THEN [s EXCEPT !.end = "undefined"]
        ELSE IF IsOperator(text, s.at, op)   THEN Take(s, text, s.at, op)
        ELSE IF word > op                    THEN Take(s, text, op, word)
        ELSE IF number > op                  THEN Take(s, text, op, number)
        ELSE IF op > Len(text)               THEN [Skip(s, op + 1) EXCEPT !.past = TRUE]
        ELSE IF At(text, op) \in Punctuation THEN Take(s, text, op, op + 1)
        ELSE Skip(s, op + 1)

\* A round of the loop of cabor_tokenize.
Scan(text, s) ==
    LET behind == EndOfComment(text, s.at)
        op     == EndOfOperator(text, s.at)
        word   == EndOfWord(text, op)
        number == EndOf(text, op, Digit)
    IN  IF s.end # "ok" \/ s.at > Len(text) THEN s
        ELSE IF At(text, s.at) \in Blank     THEN Skip(s, s.at + 1)
        ELSE IF behind > s.at                THEN Skip(s, behind)
        ELSE IF op - s.at > MaxToken         THEN [s EXCEPT !.end = "undefined"]
        ELSE IF IsOperator(text, s.at, op)   THEN Take(s, text, s.at, op)
        ELSE IF word > op                    THEN Take(s, text, op, word)
        ELSE IF number > op                  THEN Take(s, text, op, number)
        ELSE IF op > Len(text)               THEN [Skip(s, op + 1) EXCEPT !.past = TRUE]
        ELSE IF At(text, op) \in Punctuation THEN Take(s, text, op, op + 1)
        ELSE Skip(s, op + 1)

Start(at) == [at |-> at, toks |-> <<>>, end |-> "ok", past |-> FALSE]

\* The loop of cabor_tokenize: what is read from i on.
Tokenize(text) ==
    LET read[i \in 1 .. Len(text) + 2] ==
            LET s == Scan(text, Start(i))
            IN  IF i > Len(text) \/ s.end # "ok" THEN s
                ELSE [read[s.at] EXCEPT !.toks = s.toks \o @, !.past = s.past \/ @]
    IN  read[1]
=============================================================================
