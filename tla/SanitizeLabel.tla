--------------------------- MODULE SanitizeLabel ---------------------------
(***************************************************************************)
(* sanitize_label and sanitize_codec_label of collector.rs: how a text     *)
(* from the server becomes the value of a label.                           *)
(*                                                                         *)
(* A text is a sequence of characters, and of these only the class         *)
(* matters: ordinary ones, three kinds of white space, and capital ASCII   *)
(* letters, the domain of LowerCase.  Where a length does not matter, a    *)
(* word such as "DirectPlay" stands as one ordinary character.  An         *)
(* optional value is a set of at most one.                                 *)
(***************************************************************************)
EXTENDS Naturals, Sequences, SequencesExt, FiniteSetsExt

CONSTANTS
    MaxLabelChars,      \* MAX_LABEL_CHARS
    LowerCase           \* the lower-case letter of each capital

Space == " "            \* the ASCII space
Tab == "tab"            \* any other character u8::is_ascii_whitespace accepts
Wide == "wide"          \* white space that only char::is_whitespace accepts
White == {Space, Tab, Wide}

ASSUME SanitizeAssumption ==
    /\ MaxLabelChars \in Nat \ {0}
    /\ \A c \in DOMAIN LowerCase : c \notin White /\ LowerCase[c] \notin White

IsText(x) == x \in Seq(Range(x))

Unknown == <<"unknown">>

\* Option::unwrap_or.
OrElse(option, default) ==
    IF option = {} THEN default ELSE CHOOSE x \in option : TRUE

\* str::trim.
Trim(text) ==
    LET kept == {i \in DOMAIN text : text[i] \notin White}
    IN IF kept = {} THEN << >> ELSE SubSeq(text, Min(kept), Max(kept))

\* A slip the runs must notice: only doubled spaces ask for the slow path.
NeedsCollapseForSpaces(text) ==
    \E i \in 2 .. Len(text) : text[i - 1] = Space /\ text[i] = Space

\* Whether the slow path is taken for white space: it looks at ASCII only.
NeedsCollapse(text) ==
    \/ \E i \in 2 .. Len(text) : text[i - 1] = Space /\ text[i] = Space
    \/ \E i \in DOMAIN text : text[i] = Tab

\* The words of split_whitespace, joined by single spaces, for a trimmed text:
\* of a run of white space one space remains.
PushCollapsed(out, c) ==
    IF c \notin White THEN Append(out, c)
    ELSE IF Last(out) = Space THEN out
    ELSE Append(out, Space)

Collapse(text) == FoldLeft(PushCollapsed, << >>, text)

Truncate(text) == SubSeq(text, 1, Min({MaxLabelChars, Len(text)}))

sanitize_label(value) ==
    LET trimmed == Trim(OrElse(value, << >>))
    IN IF trimmed = << >> THEN Unknown
       ELSE IF ~NeedsCollapse(trimmed) /\ Len(trimmed) <= MaxLabelChars
            THEN trimmed
       ELSE Truncate(Collapse(trimmed))

ToLower(text) ==
    [i \in DOMAIN text |->
        IF text[i] \in DOMAIN LowerCase THEN LowerCase[text[i]] ELSE text[i]]

sanitize_codec_label(value) == ToLower(sanitize_label(value))
=============================================================================
