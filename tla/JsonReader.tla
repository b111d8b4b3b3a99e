----------------------------- MODULE JsonReader -----------------------------
(***************************************************************************)
(* Messages that deserialize_json is given, token by token, on top of what *)
(* an earlier message has left in its array of tokens, against the grammar *)
(* in the comment above parse_json.                                        *)
(***************************************************************************)
EXTENDS JsonParser

CONSTANTS
    Openings,       \* how messages begin, and how many plausible tokens may follow
    Leftovers,      \* what earlier messages have left
    Tokens,         \* what may come next
    Full            \* bound of the model: up to this length every message is read

ASSUME ReaderConstants ==
    LET Messages == Seq([type : Primitive \cup Signs, text : Seq(Int)]) IN
    /\ \A u \in Tokens : <<u>> \in Messages
    /\ DOMAIN Openings \cup Leftovers \subseteq Messages
    /\ Full \in Nat /\ \A o \in DOMAIN Openings : Openings[o] \in Nat

VARIABLES
    opening,        \* how the message began
    array,          \* what tokenize_json and earlier messages have put in the array
    count           \* tokens_cnt

readerVars == <<opening, array, count>>

message == SubSeq(array, 1, count)

Over(s, t) == s \o SubSeq(t, Len(s) + 1, Len(t))

ReaderInit ==
    /\ opening \in DOMAIN Openings
    /\ count = Len(opening)
    /\ \E left \in Leftovers : array = Over(opening, left)

Parsed == Parse(array, count)

\* May u come right after t in a message?
Fit(t, u) ==
    LET Closing == {"right_bracket", "right_brace"} IN
    CASE t = "colon"                    -> u \notin Closing \cup {"comma", "colon"}
      [] t \in {"left_bracket", "comma"} -> u \notin {"right_brace", "comma", "colon"}
      [] t = "left_brace"               -> u = "string"
      [] t \in Primitive \cup Closing   -> u \in Closing \cup {"comma", "colon"}

Open == Cardinality({k \in DOMAIN message : message[k].type \in {"left_bracket", "left_brace"}})
      - Cardinality({k \in DOMAIN message : message[k].type \in {"right_bracket", "right_brace"}})

Plausible(u) == Open > 0 /\ Fit(Last(message).type, u)

ReadToken(u) ==
    /\ \/ count < Full
       \/ /\ count - Len(opening) < Openings[opening]
          /\ Parsed.is = "NULL" /\ Plausible(u.type)
    /\ array' = Over(Append(message, u), array)
    /\ count' = count + 1
    /\ UNCHANGED opening

ReaderNext == \E u \in Tokens : ReadToken(u)

ReaderSpec == ReaderInit /\ [][ReaderNext]_readerVars

-----------------------------------------------------------------------------
(* The grammar: the values that the tokens of a message derive from place *)
(* a to place b, found by cutting at commas.                              *)

Commas(s) == {k \in DOMAIN s : s[k].type = "comma"}

\* An array is cut into its elements, an object into its pairs.
ValuesOf(derived, m, a, b) ==
    LET In(open, close) == a < b /\ m[a].type = open /\ m[b].type = close IN
    CASE a = b /\ m[a].type \in Primitive ->
            {Denoted(m[a])}
      [] In("left_bracket", "right_bracket") ->
            {Array(l) : l \in IF b = a + 1 THEN {<<>>} ELSE derived[<<"list", a + 1, b - 1>>]}
      [] In("left_brace", "right_brace") ->
            {ObjectOf(l) : l \in IF b = a + 1 THEN {<<>>} ELSE derived[<<"pairs", a + 1, b - 1>>]}
      [] OTHER -> {}

\* Lists of what one derives up to a comma and then the rest, or to the end.
Cut(derived, m, lists, a, b, One(_)) ==
    {<<v>> : v \in One(b)} \cup
    UNION {{<<v>> \o l : v \in One(k - 1), l \in derived[<<lists, k + 1, b>>]} :
              k \in {k \in a .. b : m[k].type = "comma"}}

ListsOf(derived, m, a, b) ==
    Cut(derived, m, "list", a, b, LAMBDA e : derived[<<"value", a, e>>])

PairsOf(derived, m, a, b) ==
    Cut(derived, m, "pairs", a, b,
        LAMBDA e : IF e > a + 1 /\ m[a].type = "string" /\ m[a + 1].type = "colon"
                   THEN {<<m[a].text, v>> : v \in derived[<<"value", a + 2, e>>]} ELSE {})

Derivations(m) ==
    LET derived[at \in {"value", "list", "pairs"} \X (1 .. Len(m) + 1) \X (0 .. Len(m))] ==
            CASE at[1] = "value" /\ at[2] <= at[3] -> ValuesOf(derived, m, at[2], at[3])
              [] at[1] = "list"  /\ at[2] <= at[3] -> ListsOf(derived, m, at[2], at[3])
              [] at[1] = "pairs" /\ at[2] <= at[3] -> PairsOf(derived, m, at[2], at[3])
              [] OTHER -> {}
    IN  derived

\* What follows the value is ignored, so a message means what its beginnings derive.
Meanings(m) ==
    LET derived == Derivations(m) IN UNION {derived[<<"value", 1, k>>] : k \in DOMAIN m}

\* A right bracket that was left behind a message is taken for the end of its last array.
ClosedByLeftover ==
    /\ count > 0 /\ array[count].type = "left_bracket"
    /\ count < Len(array) /\ array[count + 1].type = "right_bracket"

\* A fourth element or property, or a name that hashes below 0.
Overtaxed ==
    \/ Cardinality(Commas(message)) >= 3
    \/ \E k \in DOMAIN message : /\ message[k].type = "string"
                                 /\ ~Hashable(message[k].text, HashmapEntries)

(***************************************************************************)
(* "json_object ::= ... | '{' '}'" (parser.c): deserialize_json returns    *)
(* the one value that a beginning of the message derives, and NULL if      *)
(* there is none, whatever an earlier message has left behind it; unless   *)
(* the message ends in a left bracket and a right one was left there.  It  *)
(* is undefined only where the message asks for too much.                  *)
(***************************************************************************)
AgreesWithGrammar ==
    \/ ClosedByLeftover
    \/ Parsed.is = "undefined" /\ Overtaxed
    \/ Parsed.is = "NULL"  /\ Meanings(message) = {}
    \/ Parsed.is = "value" /\ Meanings(message) = {Parsed.value}

HasEmptyObject ==
    \E k \in 1 .. count - 1 : array[k].type = "left_brace" /\ array[k + 1].type = "right_brace"

(***************************************************************************)
(* The empty object is the only part of the grammar that the reader does   *)
(* not know: it asks for a property after every left brace, so a message   *)
(* with an empty object may be read as NULL.  What it returns instead of   *)
(* NULL is right even then.                                                *)
(***************************************************************************)
AgreesButForEmptyObjects ==
    AgreesWithGrammar \/ (Parsed.is = "NULL" /\ HasEmptyObject)
=============================================================================
