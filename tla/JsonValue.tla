----------------------------- MODULE JsonValue -----------------------------
(***************************************************************************)
(* The JSON values of week06 (ds/json/interface.c).                        *)
(*                                                                         *)
(* An array is a vector, which is only good for three elements (Vector),   *)
(* and an object becomes an array of its properties when it is written or  *)
(* destroyed.  An outcome beyond that is undefined.  Property names are    *)
(* not empty and shorter than the 24 bytes that json_set_property's calloc *)
(* gives at least.                                                         *)
(***************************************************************************)
EXTENDS HashMap

CONSTANT HashmapEntries     \* HASHMAP_ENTRIES

ASSUME JsonConstants == HashmapEntries \in Nat \ {0}

ArrayRoom == 3
Backslash == 92

Null       == [type |-> "null"]
Boolean(b) == [type |-> "boolean", int |-> b]
Integer(i) == [type |-> "integer", int |-> i]
String(t)  == [type |-> "string", string |-> t]
Array(s)   == [type |-> "array", array |-> s]
Object(m)  == [type |-> "object", object |-> m]

NewObject == EmptyMap(HashmapEntries)

\* json_set_property never finds the property there: a second one goes behind the first.
SetProperty(m, name, v) ==
    AddElement(m, PolynomialHash(name, 257, HashmapEntries), [property |-> name, value |-> v], FALSE)

\* The first one, as a sequence that is empty for NULL.
GetProperty(v, name) ==
    IF v.type # "object" THEN <<>>
    ELSE LET at == LookUp(v.object, LAMBDA e : e.property = name)
         IN  IF at = <<>> THEN <<>> ELSE <<at[1].value>>

\* An object with these pairs of a name and a value, put one after the other.
ObjectOf(pairs) == Object(FoldLeft(LAMBDA m, p : SetProperty(m, p[1], p[2]), NewObject, pairs))
=============================================================================
