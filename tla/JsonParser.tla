----------------------------- MODULE JsonParser -----------------------------
(***************************************************************************)
(* parse_json of week06 (ds/json/parser.c), from tokens to a value.  It    *)
(* calls itself at later tokens only, so it is a function of the token at  *)
(* which it begins, and so are its two loops: "elements" is what the loop  *)
(* of an array does from an element on, "members" that of an object.       *)
(* The array of tokens holds, behind the n that the message has, what an   *)
(* earlier message left, or zeroes.                                        *)
(***************************************************************************)
EXTENDS JsonValue

Primitive == {"null", "true", "false", "int", "string"}
Signs     == {"left_bracket", "right_bracket", "left_brace", "right_brace", "comma", "colon"}

Token(type, text) == [type |-> type, text |-> text]

TokenAt(tokens, i) == IF i <= Len(tokens) THEN tokens[i] ELSE Token("null", <<>>)

Number(digits) == FoldLeft(LAMBDA n, d : 10 * n + (d - 48), 0, digits)

Denoted(token) ==
    CASE token.type = "null"   -> Null
      [] token.type = "true"   -> Boolean(1)
      [] token.type = "false"  -> Boolean(0)
      [] token.type = "int"    -> Integer(Number(token.text))
      [] token.type = "string" -> String(token.text)

-----------------------------------------------------------------------------
(* Outcomes *)

\* A value, the place after it, and whether it fits: it can be written and destroyed if no object
\* in it has too many properties.
Got(v, fits, next) == [is |-> "value", value |-> v, fits |-> fits, next |-> next]
NoValue   == [is |-> "NULL"]
Undefined == [is |-> "undefined"]

\* A loop has parsed these parts, to the end of the array or object or until it gave up.
Ended(parts, fits, next) == [is |-> "end", parts |-> parts, fits |-> fits, next |-> next]
GivenUp(parts, fits)     == [is |-> "NULL", parts |-> parts, fits |-> fits]

\* One part, and what the loop did after it.
Then(part, fits, rest) ==
    CASE rest.is = "undefined" -> Undefined
      [] rest.is = "NULL"      -> GivenUp(<<part>> \o rest.parts, fits /\ rest.fits)
      [] rest.is = "end"       -> Ended(<<part>> \o rest.parts, fits /\ rest.fits, rest.next)

\* The value that a loop has ended with; when it gave up what there is of it is destroyed.
Whole(loop, v, fits) ==
    CASE loop.is = "end"              -> Got(v, fits, loop.next)
      [] loop.is = "NULL" /\ fits     -> NoValue
      [] loop.is = "NULL" /\ ~fits    -> Undefined

-----------------------------------------------------------------------------
(* The count of tokens left is unsigned: only 0 means none, and less than that very many. *)

\* The vector of an array has no room for a fourth element.
ArrayOf(loop) ==
    IF loop.is = "undefined" \/ Len(loop.parts) > ArrayRoom THEN Undefined
    ELSE Whole(loop, Array(loop.parts), loop.fits)

ObjectFrom(loop) ==
    IF loop.is = "undefined" THEN Undefined
    ELSE Whole(loop, ObjectOf(loop.parts), loop.fits /\ Len(loop.parts) <= ArrayRoom)

\* Mutant: an empty array does not count its closing bracket.
ParseAtEmptyShort(parse, tokens, n, i) ==
    LET type == TokenAt(tokens, i).type IN
    IF i = n + 1 THEN NoValue
    ELSE CASE type \in Primitive -> Got(Denoted(TokenAt(tokens, i)), TRUE, i + 1)
           [] type = "left_bracket" ->
                 IF TokenAt(tokens, i + 1).type = "right_bracket" THEN Got(Array(<<>>), TRUE, i + 1)
                 ELSE ArrayOf(parse[<<"elements", i + 1>>])
           [] type = "left_brace" -> ObjectFrom(parse[<<"members", i + 1>>])
           [] OTHER -> NoValue

ParseAt(parse, tokens, n, i) ==
    LET type == TokenAt(tokens, i).type IN
    IF i = n + 1 THEN NoValue
    ELSE CASE type \in Primitive -> Got(Denoted(TokenAt(tokens, i)), TRUE, i + 1)
           [] type = "left_bracket" ->
                 IF TokenAt(tokens, i + 1).type = "right_bracket" THEN Got(Array(<<>>), TRUE, i + 2)
                 ELSE ArrayOf(parse[<<"elements", i + 1>>])
           [] type = "left_brace" -> ObjectFrom(parse[<<"members", i + 1>>])
           [] OTHER -> NoValue

\* After a part whose value ends before the place next.
After(parse, tokens, n, loop, close, part, fits, next) ==
    LET type == TokenAt(tokens, next).type IN
    CASE next # n + 1 /\ type = "comma" -> Then(part, fits, parse[<<loop, next + 1>>])
      [] next # n + 1 /\ type = close   -> Ended(<<part>>, fits, next + 1)
      [] OTHER                          -> GivenUp(<<part>>, fits)

Elements(parse, tokens, n, i) ==
    LET element == parse[<<"value", i>>] IN
    CASE element.is = "undefined" -> Undefined
      [] element.is = "NULL"      -> GivenUp(<<>>, TRUE)
      [] element.is = "value"     ->
            After(parse, tokens, n, "elements", "right_bracket",
                  element.value, element.fits, element.next)

Members(parse, tokens, n, i) ==
    LET property == parse[<<"value", i>>]
        value    == parse[<<"value", property.next + 1>>]
        name     == property.value.string
    IN  CASE property.is = "undefined" -> Undefined
          [] property.is = "NULL"      -> GivenUp(<<>>, TRUE)
          [] property.is = "value"     ->
                IF \/ property.value.type # "string"
                   \/ property.next = n + 1 \/ TokenAt(tokens, property.next).type # "colon"
                THEN GivenUp(<<>>, property.fits)
                ELSE CASE value.is = "undefined" -> Undefined
                       [] value.is = "NULL"      -> GivenUp(<<>>, TRUE)
                       [] value.is = "value"     ->
                             IF ~Hashable(name, HashmapEntries) THEN Undefined
                             ELSE After(parse, tokens, n, "members", "right_brace",
                                        <<name, value.value>>, value.fits, value.next)

Parse(tokens, n) ==
    LET parse[at \in {"value", "elements", "members"} \X (1 .. Len(tokens) + 1)] ==
            CASE at[1] = "value"    -> ParseAt(parse, tokens, n, at[2])
              [] at[1] = "elements" -> Elements(parse, tokens, n, at[2])
              [] at[1] = "members"  -> Members(parse, tokens, n, at[2])
    IN  parse[<<"value", 1>>]
=============================================================================
