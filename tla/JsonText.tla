------------------------------ MODULE JsonText ------------------------------
(***************************************************************************)
(* The text of JSON values (serialize_json and deserialize_json in         *)
(* ds/json/parser.c), a sequence of bytes.                                 *)
(***************************************************************************)
EXTENDS JsonParser

RECURSIVE Serialize(_)

-----------------------------------------------------------------------------
(* serialize_json; characters by their ASCII codes *)

Word(name) ==
    CASE name = "null"  -> <<110, 117, 108, 108>>
      [] name = "true"  -> <<116, 114, 117, 101>>
      [] name = "false" -> <<102, 97, 108, 115, 101>>

Sign(type) ==
    CASE type = "left_bracket"  -> 91
      [] type = "right_bracket" -> 93
      [] type = "left_brace"    -> 123
      [] type = "right_brace"   -> 125
      [] type = "comma"         -> 44
      [] type = "colon"         -> 58

Quote     == 34
Digits    == 48 .. 57
Blanks    == {32, 10, 9}
Breakers  == {Sign(t) : t \in Signs \ {"colon"}} \cup {32}

Decimal[i \in Nat] == IF i < 10 THEN <<48 + i>> ELSE Append(Decimal[i \div 10], 48 + (i % 10))

Between(open, parts, close) ==
    <<Sign(open)>> \o FoldLeft(LAMBDA text, p : IF text = <<>> THEN p ELSE text \o <<Sign("comma")>> \o p,
                               <<>>, parts)
                   \o <<Sign(close)>>

Quoted(t) == <<Quote>> \o t \o <<Quote>>

\* Strings are written as they are, with nothing escaped.
Serialize(v) ==
    CASE v.type = "null"    -> Word("null")
      [] v.type = "boolean" -> Word(IF v.int # 0 THEN "true" ELSE "false")
      [] v.type = "integer" -> IF v.int < 0 THEN <<45>> \o Decimal[-v.int] ELSE Decimal[v.int]
      [] v.type = "string"  -> Quoted(v.string)
      [] v.type = "array"   ->
            Between("left_bracket", [k \in DOMAIN v.array |-> Serialize(v.array[k])], "right_bracket")
      [] v.type = "object"  ->
            LET pairs == EntriesOf(v.object)
                Pair(e) == Quoted(e.property) \o <<Sign("colon")>> \o Serialize(e.value)
            IN  Between("left_brace", [k \in DOMAIN pairs |-> Pair(pairs[k])], "right_brace")

-----------------------------------------------------------------------------
(* tokenize_json *)

\* The first place from i on that satisfies P, or the one behind the text.
Until(t, i, P(_)) == Min({j \in i .. Len(t) : P(j)} \cup {Len(t) + 1})

\* Mutant: a quote after a backslash never ends a string.
EndsStringStrictly(t, i, j) == t[j] = Quote /\ t[j - 1] # Backslash

\* A quote ends the string begun at i if there is no backslash before it, or two.
EndsString(t, i, j) ==
    t[j] = Quote /\ (t[j - 1] # Backslash \/ (j - i > 1 /\ t[j - 2] = Backslash))

\* strncmp takes a lexeme for the word that it is a prefix of.
IsWord(name, lexeme) == IsPrefix(lexeme, Word(name))

\* A sequence of no or one token, and the place after it; 0 for an error.
Lexeme(t, i) ==
    LET wordEnd   == Until(t, i, LAMBDA j : t[j] \in Breakers)
        stringEnd == Until(t, i + 1, LAMBDA j : EndsString(t, i, j))
        digitsEnd == Until(t, i, LAMBDA j : t[j] \notin Digits)
        names     == {w \in {"null", "true", "false"} : Word(w)[1] = t[i]}
    IN  CASE t[i] \in Blanks  -> [tokens |-> <<>>, next |-> i + 1]
          [] names # {}       ->
                LET w == CHOOSE w \in names : TRUE
                IN  IF IsWord(w, SubSeq(t, i, wordEnd - 1))
                    THEN [tokens |-> <<Token(w, <<>>)>>, next |-> wordEnd]
                    ELSE [tokens |-> <<>>, next |-> 0]
          [] t[i] = Quote     ->
                IF stringEnd <= Len(t)
                THEN [tokens |-> <<Token("string", SubSeq(t, i + 1, stringEnd - 1))>>,
                      next |-> stringEnd + 1]
                ELSE [tokens |-> <<>>, next |-> 0]
          [] t[i] \in Digits  -> [tokens |-> <<Token("int", SubSeq(t, i, digitsEnd - 1))>>,
                                  next |-> digitsEnd]
          [] \E s \in Signs : t[i] = Sign(s) ->
                [tokens |-> <<Token(CHOOSE s \in Signs : t[i] = Sign(s), <<>>)>>, next |-> i + 1]
          [] OTHER            -> [tokens |-> <<>>, next |-> 0]

\* After an error the tokens before it stay, and deserialize_json does not look.
Tokenize(t) ==
    LET from[i \in 1 .. Len(t) + 1] ==
            IF i > Len(t) THEN <<>>
            ELSE LET l == Lexeme(t, i)
                 IN  IF l.next = 0 THEN <<>> ELSE l.tokens \o from[l.next]
    IN  from[1]

-----------------------------------------------------------------------------

Deserialize(t) == LET tokens == Tokenize(t) IN Parse(tokens, Len(tokens))
=============================================================================
