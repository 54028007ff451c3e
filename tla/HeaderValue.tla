---------------------------- MODULE HeaderValue ----------------------------
(***************************************************************************)
(* How soap.c takes values out of a Content-Type header: the first value,  *)
(* up to the first semicolon, and the value of a parameter.  A header is a *)
(* sequence of characters in which the name of a parameter with its equals *)
(* sign is one symbol.                                                     *)
(***************************************************************************)
EXTENDS Naturals, Sequences, SequencesExt

Semicolon == ";"
Quote == "DQ"
White == {"SP", "TAB"}

\* The first of a set of places in a text, 0 if there is none.
FirstPlace(places) == IF places = {} THEN 0 ELSE Min(places)

\* The value at the start of a text.  One blank is taken off its end and
\* a value of a single character is no value at all; quotes go when there is
\* something between them.  The empty sequence stands for no value.
ValueAt(text) ==
    LET start == FirstPlace({n \in DOMAIN text : text[n] \notin White})
        rest == IF start = 0 THEN <<>> ELSE SubSeq(text, start, Len(text))
        semi == FirstPlace({n \in DOMAIN rest : rest[n] = Semicolon})
        cut == IF semi = 0 THEN rest ELSE SubSeq(rest, 1, semi - 1)
        value == IF cut # <<>> /\ Last(cut) \in White THEN Front(cut) ELSE cut
    IN  IF Len(value) < 2 THEN <<>>
        ELSE IF Len(value) > 2 /\ Head(value) = Quote /\ Last(value) = Quote
        THEN SubSeq(value, 2, Len(value) - 1)
        ELSE value

\* extract_hdr_first_val()
FirstValue(text) == ValueAt(text)

\* extract_hdr_assign_val()
AssignedValue(text, name) ==
    LET at == FirstPlace({n \in DOMAIN text : text[n] = name})
    IN  IF at = 0 THEN <<>> ELSE ValueAt(SubSeq(text, at + 1, Len(text)))

\* strncmp() with the length of the value: true of any prefix of the text.
StartOf(value, text) == value # <<>> /\ IsPrefix(value, text)

=============================================================================
