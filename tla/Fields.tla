------------------------------- MODULE Fields -------------------------------
(***************************************************************************)
(* The fields of a model (models/fields/): what check() lets pass, the     *)
(* column type db_type() declares, what get_db_prep_save() sends and       *)
(* from_db_value() returns, and the field inspectdb                        *)
(* (management/commands/inspectdb.py) reads back from the column's type.   *)
(*                                                                         *)
(* A field is [kind, arg, opts, of]: kind is the class without "Field",    *)
(* arg its numbers (max_bytes, precision, the values of an enum's          *)
(* choices), opts its options ("null", "low" for low_cardinality, "named"  *)
(* for a tuple with names, "str" for return_int=False, "ipv4" and "unpack" *)
(* for GenericIPAddressField) and of the fields it holds (key and value    *)
(* for a map).  A type is such a tree too.                                 *)
(***************************************************************************)
EXTENDS Integers, Sequences, FiniteSets, SequencesExt

CONSTANTS Leaves,     \* the fields that hold no other field
          Keys,       \* those put beside another in a tuple or a map
          MaxDepth    \* how deep fields are nested: a bound of the model

VARIABLES zone,       \* settings.USE_TZ
          field,      \* the field of the model
          column,     \* the type of its column, Absent or Refused
          inspected,  \* the field inspectdb writes for the column, or Absent
          given,      \* the value assigned to the field
          stored,     \* the column's value as the driver returns it
          loaded      \* the value the model gets back

fieldVars == <<zone, field, column, inspected, given, stored, loaded>>

Absent == [kind |-> "absent"]
Refused == [kind |-> "refused"]     \* by the server
Invalid == [kind |-> "invalid"]     \* a ValidationError of the field

Composite == {"Array", "Tuple", "Map"}
Ip == {"IPv4", "IPv6", "GenericIPAddress"}
Enums == {"Enum", "Enum8", "Enum16"}

\* The field (or type) of the i-th item of a value.
Of(f, i) == f.of[IF f.kind = "Array" THEN 1 ELSE i]

Low(f) == "low" \in f.opts
Null(f) == "null" \in f.opts

RECURSIVE Within(_), Depth(_)
\* The fields a field is made of, itself included.
Within(f) == {f} \cup UNION {Within(f.of[i]) : i \in DOMAIN f.of}
Depth(f) == IF f.of = <<>> THEN 0
            ELSE 1 + CHOOSE n \in 0 .. MaxDepth :
                       /\ \E i \in DOMAIN f.of : Depth(f.of[i]) = n
                       /\ \A i \in DOMAIN f.of : Depth(f.of[i]) <= n

----------------------------------------------------------------------------
(* check() and db_type()                                                   *)

\* MapField.allowed_key_type.
KeyKinds == {"Int8", "Bool", "String", "FixedString", "UUID", "DateTime", "DateTime64"}
              \cup Enums \cup Ip

EnumRange(kind) == IF kind = "Enum8" THEN -128 .. 127 ELSE -32768 .. 32767

\* What a kind of field asks of its own arguments.
ArgsChecked(f) ==
  CASE f.kind = "FixedString" -> f.arg # <<>> /\ f.arg[1] > 0
    [] f.kind = "DateTime64" -> f.arg[1] \in 0 .. 9
    [] f.kind \in Enums -> f.arg # <<>> /\ Range(f.arg) \subseteq EnumRange(f.kind)
    [] f.kind = "Map" -> LET key == f.of[1] IN
                           /\ key.kind \in KeyKinds
                           /\ ~Null(key)
                           /\ Low(key) => key.kind \in {"String", "FixedString"}
    [] OTHER -> TRUE

NullAllowed(f) == f.kind \notin Composite \cup {"JSON"}

\* The fields a composite field runs the checks of.
CheckedInside(f) == Range(f.of)

RECURSIVE Checked(_)
\* check() of the field and of the fields in it finds no error.
Checked(f) == /\ Null(f) => NullAllowed(f)
              /\ ArgsChecked(f)
              /\ \A g \in CheckedInside(f) : Checked(g)

Type(name, arg, of) == [kind |-> name, arg |-> arg, opts |-> {}, of |-> of]

\* DatabaseWrapper.data_types.
DataType(f) ==
  CASE f.kind \in {"DateTime", "DateTime64"} ->
         [Type(f.kind, f.arg, <<>>) EXCEPT !.opts = IF zone THEN {"UTC"} ELSE {}]
    [] f.kind = "JSON" -> Type("Object('json')", <<>>, <<>>)
    [] OTHER -> Type(f.kind, f.arg, <<>>)

\* Mutant of NestedType: Nullable outside.
NestedTypeNullable(f, type) ==
  LET value == IF Low(f) THEN Type("LowCardinality", <<>>, <<type>>) ELSE type
  IN  IF Null(f) THEN Type("Nullable", <<>>, <<value>>) ELSE value

NestedType(f, type) ==
  LET value == IF Null(f) THEN Type("Nullable", <<>>, <<type>>) ELSE type
  IN  IF Low(f) THEN Type("LowCardinality", <<>>, <<value>>) ELSE value

RECURSIVE DbType(_)
DbType(f) ==
  CASE f.kind \in Composite ->
         [Type(f.kind, <<>>, [i \in DOMAIN f.of |-> DbType(f.of[i])])
            EXCEPT !.opts = f.opts \cap {"named"}]
    [] f.kind = "GenericIPAddress" ->
         Type(IF "ipv4" \in f.opts THEN "IPv4" ELSE "IPv6", <<>>, <<>>)
    [] OTHER -> NestedType(f, DataType(f))

\* The types a LowCardinality and a Nullable may hold, and the keys of a map.
LowTypes == {"Int8", "Bool", "String", "FixedString", "UUID", "DateTime", "IPv4", "IPv6"}
PlainTypes == LowTypes \cup {"DateTime64", "Decimal"} \cup Enums
KeyTypes == (LowTypes \cup {"DateTime64"} \cup Enums)

RECURSIVE Accepted(_)
\* Whether ClickHouse has the type.
Accepted(t) ==
  /\ \A i \in DOMAIN t.of : Accepted(t.of[i])
  /\ CASE t.kind = "Nullable" -> t.of[1].kind \in PlainTypes
       [] t.kind = "LowCardinality" ->
            LET in == IF t.of[1].kind = "Nullable" THEN t.of[1].of[1] ELSE t.of[1]
            IN  in.kind \in LowTypes
       [] t.kind = "FixedString" -> t.arg[1] > 0
       [] t.kind = "DateTime64" -> t.arg[1] \in 0 .. 9
       [] t.kind \in Enums -> t.arg # <<>> /\ Range(t.arg) \subseteq EnumRange(t.kind)
       [] t.kind = "Map" -> \/ t.of[1].kind \in KeyTypes
                            \/ /\ t.of[1].kind = "LowCardinality"
                               /\ t.of[1].of[1].kind \in {"String", "FixedString"}
       [] OTHER -> TRUE

RECURSIVE Described(_)
\* The type as system.columns gives it: an Enum has the width of its values.
Described(t) ==
  [t EXCEPT !.of = [i \in DOMAIN t.of |-> Described(t.of[i])],
            !.kind = IF @ # "Enum" THEN @
                     ELSE IF Range(t.arg) \subseteq -128 .. 127 THEN "Enum8" ELSE "Enum16"]

----------------------------------------------------------------------------
(* inspectdb: the text of a type, token by token, and its parser.  A token *)
(* is <<text, number>>; quotes, brackets, commas, spaces, signs and equals *)
(* signs are tokens of one character, as the parser's offsets count them.  *)

Tok(text) == <<text, 0>>
Toks(texts) == [i \in DOMAIN texts |-> Tok(texts[i])]
Num(n) == IF n < 0 THEN <<Tok("-"), <<"num", -n>>>> ELSE <<<<"num", n>>>>

\* The texts, separated by a comma and a space.
Commas(texts) == FoldLeft(LAMBDA a, b : IF a = <<>> THEN b ELSE a \o Toks(<<",", " ">>) \o b,
                          <<>>, texts)
Brackets(text) == <<Tok("(")>> \o text \o <<Tok(")")>>

RECURSIVE Text(_)
Text(t) ==
  LET of == [i \in DOMAIN t.of |->
               (IF "named" \in t.opts THEN Toks(<<"name", " ">>) ELSE <<>>) \o Text(t.of[i])]
      zoned == IF "UTC" \in t.opts THEN <<Toks(<<"'", "UTC", "'">>)>> ELSE <<>>
      args == CASE t.kind \in Enums ->
                     [i \in DOMAIN t.arg |->
                        <<<<"name", t.arg[i]>>>> \o Toks(<<" ", "=", " ">>) \o Num(t.arg[i])]
                [] OTHER -> [i \in DOMAIN t.arg |-> Num(t.arg[i])]
      inside == Commas(of \o args \o zoned)
  IN  <<Tok(t.kind)>> \o (IF inside = <<>> THEN <<>> ELSE Brackets(inside))

At(s, i) == IF i <= Len(s) THEN s[i][1] ELSE "end"
From(s, n) == SubSeq(s, n + 1, Len(s))    \* column_type[n:]

Field(kind, arg, opts, of) == [kind |-> kind, arg |-> arg, opts |-> opts, of |-> of]
Parsed(f, rest) == [field |-> f, rest |-> rest]

\* consume_enum_choice(), over the choices up to the closing bracket: only
\* digits are taken as a value, what follows a sign is not understood.
RECURSIVE EnumChoices(_, _)
EnumChoices(s, values) ==
  IF At(s, 5) # "num" THEN [arg |-> <<>>, rest |-> <<>>]
  ELSE LET found == Append(values, s[5][2])
       IN  IF At(s, 6) = ")" THEN [arg |-> found, rest |-> From(s, 6)]
           ELSE EnumChoices(From(s, 7), found)

\* What DateTime('UTC') leaves: the loop over the time zone returns at its
\* first character, so that the quote and the bracket stay when it has three.
AfterZone(s) == IF At(s, 2) = "(" THEN From(s, 4) ELSE From(s, 1)

RECURSIVE Inspect(_, _), InspectTuple(_, _)
\* inspect_field_type(): the field of the type s starts with, and the rest.
Inspect(s, opts) ==
  LET inner(n, with) == LET p == Inspect(From(s, n), with)
                        IN  Parsed(p.field, From(p.rest, 1))
  IN CASE At(s, 1) = "LowCardinality" -> inner(2, opts \cup {"low"})
       [] At(s, 1) = "Nullable" -> inner(2, opts \cup {"null"})
       [] At(s, 1) = "FixedString" ->
            Parsed(Field("FixedString", <<s[3][2]>>, opts, <<>>), From(s, 4))
       [] At(s, 1) = "DateTime64" ->
            Parsed(Field("DateTime64", <<s[3][2]>>, opts, <<>>),
                   From(s, IF At(s, 4) = "," THEN 9 ELSE 4))
       [] At(s, 1) = "DateTime" ->
            Parsed(Field("DateTime", <<>>, opts, <<>>), AfterZone(s))
       [] At(s, 1) = "Decimal" ->
            Parsed(Field("Decimal", <<s[3][2], s[6][2]>>, opts, <<>>), From(s, 7))
       [] At(s, 1) \in Enums ->
            LET choices == EnumChoices(From(s, 2), <<>>)
            IN  Parsed(Field(At(s, 1), choices.arg, opts, <<>>), choices.rest)
       [] At(s, 1) = "Array" ->
            LET p == Inspect(From(s, 2), {})
            IN  Parsed(Field("Array", <<>>, opts, <<p.field>>), From(p.rest, 1))
       [] At(s, 1) = "Tuple" ->
            LET p == InspectTuple(From(s, 2), <<>>)
            IN  Parsed(Field("Tuple", <<>>, opts, p.field), From(p.rest, 1))
       [] At(s, 1) = "Map" ->
            LET key == Inspect(From(s, 2), {})
                value == Inspect(From(key.rest, 2), {})
            IN  Parsed(Field("Map", <<>>, opts, <<key.field, value.field>>),
                       From(value.rest, 1))
       [] At(s, 1) = "Object('json')" -> Parsed(Field("JSON", <<>>, opts, <<>>), From(s, 1))
       [] OTHER -> Parsed(Field(At(s, 1), <<>>, opts, <<>>), From(s, 1))

\* Mutant of InspectTuple: the space after the comma is not skipped.
InspectTupleSpaced(s, before) ==
  LET p == Inspect(s, {})
      found == Append(before, p.field)
  IN  IF At(p.rest, 1) = "," THEN InspectTuple(From(p.rest, 1), found)
      ELSE Parsed(found, p.rest)

InspectTuple(s, before) ==
  LET p == Inspect(s, {})
      found == Append(before, p.field)
  IN  IF At(p.rest, 1) = "," THEN InspectTuple(From(p.rest, 2), found)
      ELSE Parsed(found, p.rest)

----------------------------------------------------------------------------
(* Values.  A scalar is [kind, what, n, us]: its Python type, which        *)
(* address it is ("v4", "v6" or a v4 "mapped" into v6), a number that      *)
(* tells values apart and the microseconds of a time.  A list, tuple or    *)
(* dict is [kind, items]; a dict has one item, of a key and a value.       *)

Val(kind, what, n, us) == [kind |-> kind, what |-> what, n |-> n, us |-> us]
None == Val("None", "", 0, 0)
Many(kind, items) == [kind |-> kind, items |-> items]

RECURSIVE Inputs(_)
\* Values a program assigns to the field, right and wrong ones (an integer
\* assigned to a time counts units of the column, which are not modelled).
Inputs(f) ==
  (IF Null(f) THEN {None} ELSE {}) \cup
  CASE f.kind = "DateTime" \/ f.kind = "DateTime64" ->
         {Val("datetime", "", 1, 0), Val("datetime", "", 1, 1), Val("float", "", 1, 1)}
    [] f.kind \in Enums ->
         {Val(k, "", n, 0) : k \in {"int", "IntegerChoices", "str", "bytes"},
                             n \in Range(f.arg) \cup {99}}
    [] f.kind \in Ip ->
         {Val("str", w, 1, 0) : w \in {"v4", "v6", "mapped"}} \cup
         {Val("IPv4Address", "v4", 1, 0), Val("IPv6Address", "v6", 1, 0),
          Val("IPv6Address", "mapped", 1, 0)}
    [] f.kind = "Array" -> {Many("list", <<>>)} \cup
         {Many("list", <<v>>) : v \in Inputs(f.of[1])}
    [] f.kind = "Tuple" -> {Many("tuple", <<v>>) : v \in Inputs(f.of[1])} \cup
         {Many("tuple", <<v, w>>) : v \in Inputs(f.of[1]), w \in Inputs(f.of[2])}
    [] f.kind = "Map" -> {Many("dict", <<v, w>>) : v \in Inputs(f.of[1]), w \in Inputs(f.of[2])}
    [] OTHER -> {Val("str", "", 1, 0)}

\* A ValidationError, or a refusal, of an item is one of the whole.
Gathered(kind, items) ==
  IF \E i \in DOMAIN items : items[i].kind \in {"invalid", "refused"}
  THEN items[CHOOSE i \in DOMAIN items : items[i].kind \in {"invalid", "refused"}]
  ELSE Many(kind, items)

\* ipaddress.ip_address() of a text; other values stay as they are.
Address(v) == IF v.kind # "str" THEN v
              ELSE [v EXCEPT !.kind = IF v.what = "v4" THEN "IPv4Address" ELSE "IPv6Address"]
Mapped(v) == Val("IPv6Address", "mapped", v.n, 0)
Unmapped(v) == Val("IPv4Address", "v4", v.n, 0)

\* get_prep_value() of the fields that hold an address.
PreparedIp(f, v) ==
  LET a == Address(v) IN
  IF v = None THEN None
  ELSE IF f.kind = "IPv4" THEN IF a.kind = "IPv4Address" THEN a ELSE Invalid
  ELSE IF f.kind = "IPv6" \/ "ipv4" \notin f.opts
       THEN IF a.kind = "IPv4Address" THEN Mapped(a) ELSE a
  ELSE CASE a.what = "v4" -> a
         [] a.what = "mapped" -> Unmapped(a)
         [] OTHER -> Invalid

\* get_prep_value() of DateTimeField and DateTime64Field.
PreparedTime(f, v) ==
  IF f.kind = "DateTime64" THEN v
  ELSE CASE v.kind = "datetime" -> [v EXCEPT !.us = 0]
         [] v.kind = "float" -> Val("int", "", v.n, 0)
         [] OTHER -> v

PreparedEnum(v) == CASE v.kind = "bytes" -> [v EXCEPT !.kind = "str"]
                     [] v.kind = "IntegerChoices" -> [v EXCEPT !.kind = "int"]
                     [] OTHER -> v

RECURSIVE Prepared(_, _)
\* get_db_prep_save().
Prepared(f, v) ==
  LET items == [i \in DOMAIN v.items |-> Prepared(Of(f, i), v.items[i])]
  IN CASE f.kind \in Composite ->
            IF f.kind = "Tuple" /\ Len(v.items) # Len(f.of) THEN Invalid
            ELSE Gathered(v.kind, items)
       [] f.kind \in Ip -> PreparedIp(f, v)
       [] f.kind \in Enums -> PreparedEnum(v)
       [] f.kind \in {"DateTime", "DateTime64"} -> PreparedTime(f, v)
       [] OTHER -> v

\* A value that is not None, in a column of a type without parts.
StoreScalar(t, v) ==
  CASE t.kind \in Enums -> IF v.n \in Range(t.arg) THEN Val("str", "", v.n, 0) ELSE Refused
    [] t.kind = "DateTime" -> IF v.kind = "float" THEN Refused ELSE Val("datetime", "", v.n, 0)
    [] t.kind = "DateTime64" ->
         Val("datetime", "", v.n, IF t.arg[1] >= 6 THEN v.us ELSE 0)
    [] t.kind \in {"IPv4", "IPv6"} ->
         IF v.kind = t.kind \o "Address" THEN v ELSE Refused
    [] OTHER -> v

RECURSIVE Store(_, _)
\* What the driver reads from a column of the type after writing v into it.
Store(t, v) ==
  LET items == [i \in DOMAIN v.items |-> Store(Of(t, i), v.items[i])]
  IN CASE t.kind = "LowCardinality" -> Store(t.of[1], v)
       [] t.kind = "Nullable" -> IF v = None THEN None ELSE Store(t.of[1], v)
       [] t.kind \notin {"LowCardinality", "Nullable"} /\ v = None -> Refused
       [] t.kind \in Composite /\ v # None ->
            Gathered(IF "named" \in t.opts THEN "dict" ELSE v.kind, items)
       [] OTHER -> StoreScalar(t, v)

\* Mutant of HasFromDb: from_db_value is left to the class.
HasFromDbOwn(f) == f.kind \in Ip \cup Enums \cup {"Tuple", "JSON"}

RECURSIVE HasFromDb(_), FromDb(_, _)
\* hasattr(field, "from_db_value"): an array and a map have it when a field
\* in them has.
HasFromDb(f) ==
  CASE f.kind \in {"Array", "Map"} -> \E i \in DOMAIN f.of : HasFromDb(f.of[i])
    [] OTHER -> f.kind \in Ip \cup Enums \cup {"Tuple", "JSON"}

\* The value converted by the field if it converts.
Converted(f, v) == IF HasFromDb(f) THEN FromDb(f, v) ELSE v

\* _convert_type() of a tuple: the container is a tuple or a named one.
Container(f) == IF "named" \in f.opts THEN "namedtuple" ELSE "tuple"

FromDb(f, v) ==
  LET text == [v EXCEPT !.kind = "str"] IN
  CASE f.kind = "Array" -> Many("list", [i \in DOMAIN v.items |-> FromDb(f.of[1], v.items[i])])
    [] f.kind = "Map" -> Many("dict", <<Converted(f.of[1], v.items[1]),
                                        Converted(f.of[2], v.items[2])>>)
    [] f.kind = "Tuple" ->
         Many(Container(f), [i \in DOMAIN v.items |-> Converted(f.of[i], v.items[i])])
    [] f.kind \in Enums -> IF v = None \/ "str" \in f.opts THEN v ELSE [v EXCEPT !.kind = "int"]
    [] f.kind \in Ip ->
         IF v = None THEN None
         ELSE IF f.kind = "GenericIPAddress" /\ "unpack" \in f.opts /\ v.what = "mapped"
              THEN [Unmapped(v) EXCEPT !.kind = "str"]
              ELSE text
    [] OTHER -> v

----------------------------------------------------------------------------
(* The life of a field: it is declared, one level at a time, migrated, and *)
(* its column inspected; a value is assigned, saved and loaded.            *)

FieldsInit ==
  /\ zone \in BOOLEAN
  /\ field \in Leaves
  /\ column = Absent /\ inspected = Absent
  /\ given = Absent /\ stored = Absent /\ loaded = Absent

\* The field declared so far is put into another one.
Nest ==
  /\ column = Absent /\ Depth(field) < MaxDepth
  /\ field.kind # "JSON"
  /\ field' \in {Field("Array", <<>>, o, <<field>>) : o \in {{}, {"null"}}}
           \cup {Field("Tuple", <<>>, o, <<k, field>>) : k \in Keys, o \in {{}, {"named"}}}
           \cup {Field("Tuple", <<>>, {}, <<field, k>>) : k \in Keys}
           \cup {Field("Map", <<>>, {}, <<k, field>>) : k \in Keys}
           \cup {Field("Map", <<>>, {}, <<field, k>>) : k \in Keys}
  /\ UNCHANGED <<zone, column, inspected, given, stored, loaded>>

\* migrate, for a model whose checks found nothing.
Migrate ==
  /\ column = Absent /\ Checked(field)
  /\ column' = IF Accepted(DbType(field)) THEN Described(DbType(field)) ELSE Refused
  /\ UNCHANGED <<zone, field, inspected, given, stored, loaded>>

InspectDb ==
  /\ column \notin {Absent, Refused} /\ inspected = Absent /\ given = Absent
  /\ inspected' = Inspect(Text(column), {}).field
  /\ UNCHANGED <<zone, field, column, given, stored, loaded>>

Save ==
  /\ column \notin {Absent, Refused} /\ inspected = Absent /\ given = Absent
  /\ field.kind # "JSON"
  /\ \E v \in Inputs(field) :
       LET sent == Prepared(field, v) IN
         /\ given' = v
         /\ stored' = IF sent = Invalid THEN Invalid ELSE Store(column, sent)
  /\ UNCHANGED <<zone, field, column, inspected, loaded>>

Load ==
  /\ stored \notin {Absent, Refused, Invalid} /\ loaded = Absent
  /\ loaded' = Converted(field, stored)
  /\ UNCHANGED <<zone, field, column, inspected, given, stored>>

FieldsNext == Nest \/ Migrate \/ InspectDb \/ Save \/ Load

----------------------------------------------------------------------------
\* A field whose checks find nothing has a column the server can make
\* (LowCardinality around Nullable and not inside, nothing nullable that has
\* parts, the keys of a map, however deep).
CheckedAccepted == column # Refused

\* What inspectdb does not read: the names of a tuple, a negative value of an
\* enum, and what follows DateTime('UTC') in a tuple or a map.
Inspectable(f) ==
  \A g \in Within(f) :
    /\ "named" \notin g.opts
    /\ g.kind \in Enums => \A i \in DOMAIN g.arg : g.arg[i] >= 0
    /\ (g.kind \in {"Tuple", "Map"} /\ zone) =>
         \A h \in Within(g) : h.kind # "DateTime"

\* The field that inspectdb writes for a column declares that column.
InspectedBack ==
  (inspected # Absent /\ Inspectable(field)) => Described(DbType(inspected)) = column

RECURSIVE Meaning(_, _)
\* What a value says, whatever its Python type: the address (a mapped one is
\* the IPv4 address), the enum's member, the time as precise as the column.
Meaning(f, v) ==
  CASE f.kind \in Composite ->
         [i \in DOMAIN v.items |-> Meaning(Of(f, i), v.items[i])]
    [] OTHER -> IF v = None THEN <<"None", 0, 0>>
                ELSE <<IF f.kind \notin Ip THEN "" ELSE IF v.what = "v6" THEN "v6" ELSE "v4",
                       v.n,
                       IF f.kind = "DateTime64" /\ f.arg[1] >= 6 THEN v.us ELSE 0>>

RECURSIVE Suits(_, _)
\* Values the field is for: the members of an enum, addresses of its protocol,
\* tuples of its length (but no None in a GenericIPAddressField, whose column
\* is not Nullable).
Suits(f, v) ==
  CASE f.kind \in Composite ->
         /\ f.kind = "Tuple" => Len(v.items) = Len(f.of)
         /\ \A i \in DOMAIN v.items : Suits(Of(f, i), v.items[i])
    [] OTHER -> IF v = None THEN f.kind # "GenericIPAddress"
                ELSE /\ f.kind \in Enums => v.n \in Range(f.arg)
                     /\ f.kind = "IPv4" => v.what = "v4"
                     /\ "ipv4" \in f.opts => v.what # "v6"

RECURSIVE Promised(_, _)
\* The Python type the documentation promises of a loaded value.
Promised(f, v) ==
  CASE f.kind \in Composite ->
         /\ v.kind = CASE f.kind = "Array" -> "list" [] f.kind = "Map" -> "dict"
                       [] OTHER -> Container(f)
         /\ \A i \in DOMAIN v.items :
              Promised(Of(f, i), v.items[i])
    [] OTHER -> IF v = None THEN Null(f)
                ELSE /\ v.kind = (CASE f.kind \in Enums /\ "str" \notin f.opts -> "int"
                                   [] f.kind \in {"DateTime", "DateTime64"} -> "datetime"
                                   [] OTHER -> "str")
                     /\ "unpack" \in f.opts => v.what # "mapped"

\* A value is refused exactly when it does not suit the field, and one that
\* is saved loads as the value it was, with the type its field promises,
\* however deep it is nested.
ValuesLoadedAsSaved ==
  /\ stored # Absent => (stored \in {Invalid, Refused} <=> ~Suits(field, given))
  /\ loaded # Absent => /\ Meaning(field, loaded) = Meaning(field, given)
                        /\ Promised(field, loaded)
=============================================================================
