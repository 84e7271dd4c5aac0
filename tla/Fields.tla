------------------------------- MODULE Fields -------------------------------
(***************************************************************************)
(* The field decorators of the DTOs (src/decorators) and what the global   *)
(* ValidationPipe does with a DTO made of them: every value is converted   *)
(* (@Type), changed (@Transform) and then put to the checks, unless a      *)
(* condition (@ValidateIf, @IsOptional) takes it out of them.              *)
(***************************************************************************)
EXTENDS Integers, Sequences

\* A value is its type and its content; numbers are counted in halves.
Undefined == <<"undefined">>
Null == <<"null">>
NaN == <<"not a number">>
Throws == <<"throws">>
Object == <<"object">>
Date == <<"date">>
InvalidDate == <<"invalid date">>
Number(halves) == <<"number", halves>>
Boolean(b) == <<"boolean", b>>
Text(word) == <<"text", word>>
List(values) == <<"list", values>>

\* What a word is to the converters and validators.
Word(length, number, looks, lower, upper) ==
    [length |-> length, number |-> number, looks |-> looks, lower |-> lower, upper |-> upper]
Words ==
    [none |-> Word(0, Number(0), {"allowed"}, "none", "none"),
     seven |-> Word(1, Number(14), {"allowed", "date"}, "seven", "seven"),
     zero |-> Word(1, Number(0), {"allowed", "date"}, "zero", "zero"),
     minusOne |-> Word(2, Number(-2), {"date"}, "minusOne", "minusOne"),
     oneAndAHalf |-> Word(3, Number(3), {"date"}, "oneAndAHalf", "oneAndAHalf"),
     true |-> Word(4, NaN, {"allowed"}, "true", "TRUE"),
     TRUE |-> Word(4, NaN, {"allowed"}, "true", "TRUE"),
     false |-> Word(5, NaN, {"allowed"}, "false", "FALSE"),
     FALSE |-> Word(5, NaN, {"allowed"}, "false", "FALSE"),
     secret |-> Word(6, NaN, {"allowed"}, "secret", "SECRET"),
     SECRET |-> Word(6, NaN, {"allowed"}, "secret", "SECRET"),
     sentence |-> Word(9, NaN, {}, "sentence", "SENTENCE"),
     SENTENCE |-> Word(9, NaN, {}, "sentence", "SENTENCE"),
     email |-> Word(6, NaN, {"email"}, "email", "EMAIL"),
     EMAIL |-> Word(6, NaN, {"email"}, "email", "EMAIL"),
     url |-> Word(12, NaN, {"url"}, "url", "URL"),
     URL |-> Word(12, NaN, {"url"}, "url", "URL"),
     uuid |-> Word(36, NaN, {"uuid"}, "uuid", "UUID"),
     UUID |-> Word(36, NaN, {"uuid"}, "uuid", "UUID"),
     jwt |-> Word(40, NaN, {"jwt"}, "jwtLower", "jwtUpper"),
     jwtLower |-> Word(40, NaN, {}, "jwtLower", "jwtUpper"),
     jwtUpper |-> Word(40, NaN, {}, "jwtLower", "jwtUpper"),
     asc |-> Word(3, NaN, {"allowed"}, "asc", "ASC"),
     ASC |-> Word(3, NaN, {"allowed"}, "asc", "ASC")]

IsText(v) == v[1] = "text"
IsNumber(v) == v[1] = "number"
IsList(v) == v[1] = "list"
-----------------------------------------------------------------------------
(* Conversion. *)
NumberOf(v) ==
    CASE IsText(v) -> Words[v[2]].number
      [] v[1] = "boolean" -> Number(IF v[2] THEN 2 ELSE 0)
      [] OTHER -> IF IsNumber(v) THEN v ELSE NaN
StringOf(v) ==
    CASE v[1] = "boolean" -> Text(IF v[2] THEN "true" ELSE "false")
      [] IsNumber(v) -> Text(CHOOSE w \in DOMAIN Words : Words[w].number = v /\ Words[w].length > 0)
      [] OTHER -> IF IsText(v) THEN v ELSE Text("sentence")
DateOf(v) ==
    CASE IsText(v) -> IF "date" \in Words[v[2]].looks THEN Date ELSE InvalidDate
      [] v[1] \in {"number", "boolean"} -> Date
      [] OTHER -> InvalidDate

\* @Type: null and undefined stay, a list is converted value by value.
ConvertOne(type, v) ==
    IF v \in {Null, Undefined} THEN v
    ELSE CASE type = "Number" -> NumberOf(v) [] type = "String" -> StringOf(v)
           [] type = "Date" -> DateOf(v) [] OTHER -> v
Convert(type, v) ==
    IF IsList(v) THEN List([k \in DOMAIN v[2] |-> ConvertOne(type, v[2][k])]) ELSE ConvertOne(type, v)

ToBoolean(v) ==
    CASE v = Text("true") -> Boolean(TRUE) [] v = Text("false") -> Boolean(FALSE) [] OTHER -> v

\* Nothing, '' and null come out undefined; a null in a list has no toLowerCase.
ToCase(case, v) ==
    CASE v \in {Undefined, Null, Text("none")} -> Undefined
      [] IsText(v) /\ v # Text("none") -> Text(Words[v[2]][case])
      [] IsList(v) -> IF Null \in {v[2][k] : k \in DOMAIN v[2]} THEN Throws
                      ELSE List([k \in DOMAIN v[2] |-> Text(Words[v[2][k][2]][case])])
ToLowerCase(v) == ToCase("lower", v)
ToUpperCase(v) == ToCase("upper", v)
-----------------------------------------------------------------------------
(* Checks. *)
Check(name, arg, each) == [name |-> name, arg |-> arg, each |-> each]

Looks(v, format) == IsText(v) /\ format \in Words[v[2]].looks

HoldsFor(name, arg, v) ==
    CASE name = "NotNull" -> v # Null
      [] name = "IsDefined" -> v \notin {Null, Undefined}
      [] name = "IsNumber" -> IsNumber(v)
      [] name = "IsInt" -> IsNumber(v) /\ v[2] % 2 = 0
      [] name = "Min" -> IsNumber(v) /\ v[2] >= 2 * arg
      [] name = "Max" -> IsNumber(v) /\ v[2] <= 2 * arg
      [] name = "IsPositive" -> IsNumber(v) /\ v[2] > 0
      [] name = "IsString" -> IsText(v)
      [] name = "MinLength" -> IsText(v) /\ Words[v[2]].length >= arg
      [] name = "MaxLength" -> IsText(v) /\ Words[v[2]].length <= arg
      [] name = "IsBoolean" -> v[1] = "boolean"
      [] name = "IsDate" -> v = Date
      [] name = "IsEnum" -> IsText(v) /\ v[2] \in arg
      [] name = "Looks" -> Looks(v, arg)
      [] name = "IsPassword" -> \* of what String(value) gives
            \/ v \in {Null, Undefined} \/ Looks(v, "allowed")
            \/ IsList(v) /\ Len(v[2]) < 2 /\ \A k \in DOMAIN v[2] : Looks(v[2][k], "allowed")
      [] name = "ValidateNested" ->
            \/ v \in {Null, Undefined, Object}
            \/ IsList(v) /\ \A k \in DOMAIN v[2] : v[2][k] = Object

\* each: value by value, when the value is a list at all.
Holds(c, v) ==
    IF c.each /\ IsList(v) THEN \A k \in DOMAIN v[2] : HoldsFor(c.name, c.arg, v[2][k])
    ELSE HoldsFor(c.name, c.arg, v)
-----------------------------------------------------------------------------
(* The decorators: a field's conversion, changes, skipped values, checks.  *)
(* The options are records; an option that is absent is not in the record. *)
Opt(o, name, default) == IF name \in DOMAIN o THEN o[name] ELSE default
If(condition, check) == IF condition THEN {check} ELSE {}

Skipped(o) == IF Opt(o, "nullable", FALSE) THEN {Null} ELSE {}
NotNull(o, each) == If(~Opt(o, "nullable", FALSE), Check("NotNull", Null, each))
Field(type, changes, o, each, checks) ==
    [type |-> type, changes |-> changes, skips |-> Skipped(o), checks |-> checks \cup NotNull(o, each)]
Optional(field) == [field EXCEPT !.skips = @ \cup {Null, Undefined}]
Each(o) == Opt(o, "each", FALSE)

NumberField(o) ==
    Field("Number", <<>>, o, Each(o),
          {Check(IF Opt(o, "int", FALSE) THEN "IsInt" ELSE "IsNumber", 0, Each(o))}
          \cup If("min" \in DOMAIN o, Check("Min", Opt(o, "min", 0), Each(o)))
          \cup If("max" \in DOMAIN o, Check("Max", Opt(o, "max", 0), Each(o)))
          \cup If(Opt(o, "isPositive", FALSE), Check("IsPositive", 0, Each(o))))
StringFieldOf(o, minLength) ==
    Field("String",
          (IF Opt(o, "toLowerCase", FALSE) THEN <<"toLowerCase">> ELSE <<>>)
          \o (IF Opt(o, "toUpperCase", FALSE) THEN <<"toUpperCase">> ELSE <<>>),
          o, Each(o),
          {Check("IsString", 0, Each(o)), Check("MinLength", minLength, Each(o))}
          \cup If(Opt(o, "maxLength", 0) # 0, Check("MaxLength", Opt(o, "maxLength", 0), Each(o))))
StringField(o) == StringFieldOf(o, Opt(o, "minLength", 1))
TokenField(o) == Field("String", <<>>, o, Each(o), {Check("Looks", "jwt", Each(o))})
PasswordField(o) ==
    LET field == StringFieldOf(o, 6)
    IN  [field EXCEPT !.checks = @ \cup {Check("IsPassword", 0, FALSE)} \cup NotNull(o, FALSE)]
BooleanField(o) == Field("any", <<"toBoolean">>, o, FALSE, {Check("IsBoolean", 0, FALSE)})
EmailField(o) ==
    LET field == StringField([x \in DOMAIN o \cup {"toLowerCase"} |-> Opt(o, x, TRUE)])
    IN  [field EXCEPT !.checks = @ \cup {Check("Looks", "email", FALSE)} \cup NotNull(o, FALSE)]
UUIDField(o) == Field("String", <<>>, o, FALSE, {Check("Looks", "uuid", Each(o))})
URLField(o) ==
    LET field == StringField(o) IN [field EXCEPT !.checks = @ \cup {Check("Looks", "url", TRUE)}]
DateField(o) == Field("Date", <<>>, o, FALSE, {Check("IsDate", 0, FALSE)})
EnumField(enum, o) == Field("any", <<>>, o, FALSE, {Check("IsEnum", enum, Each(o))})
ClassField(o) ==
    Field("class", <<>>, o, FALSE,
          {Check("ValidateNested", 0, FALSE)}
          \cup If(Opt(o, "required", TRUE), Check("IsDefined", 0, FALSE)))

NumberFieldOptional(o) == Optional(NumberField(o))
StringFieldOptional(o) == Optional(StringFieldOf(o, Opt(o, "minLength", 0)))
PasswordFieldOptional(o) == Optional(PasswordField(o))
BooleanFieldOptional(o) == Optional(BooleanField(o))
EmailFieldOptional(o) == Optional(EmailField(o))
UUIDFieldOptional(o) == Optional(UUIDField(o))
URLFieldOptional(o) == Optional(URLField(o))
DateFieldOptional(o) == Optional(DateField(o))
EnumFieldOptional(enum, o) == Optional(EnumField(enum, o))
ClassFieldOptional(o) == Optional(ClassField([x \in DOMAIN o \cup {"required"} |-> Opt(o, x, FALSE)]))
-----------------------------------------------------------------------------
(* The pipe. *)
Change(change, v) ==
    IF v = Throws THEN v
    ELSE CASE change = "toBoolean" -> ToBoolean(v)
           [] change = "toLowerCase" -> ToLowerCase(v) [] change = "toUpperCase" -> ToUpperCase(v)
\* No decorator adds more than two changes.
Transformed(field, raw) ==
    LET given == Convert(field.type, raw)
        first == IF field.changes = <<>> THEN given ELSE Change(field.changes[1], given)
    IN  IF Len(field.changes) < 2 THEN first ELSE Change(field.changes[2], first)
Passes(field, v) == v # Throws /\ (v \in field.skips \/ \A c \in field.checks : Holds(c, v))
-----------------------------------------------------------------------------
(* What the fields promise, told by kind and options. *)
Enum == {"asc", "false"}
Kinds == {"number", "string", "token", "password", "boolean", "email", "uuid", "url", "date",
          "enum", "class"}

Decorate(f) ==
    CASE f.kind = "number" -> IF f.optional THEN NumberFieldOptional(f.o) ELSE NumberField(f.o)
      [] f.kind = "string" -> IF f.optional THEN StringFieldOptional(f.o) ELSE StringField(f.o)
      [] f.kind = "token" -> TokenField(f.o) \* there is no optional one
      [] f.kind = "password" -> IF f.optional THEN PasswordFieldOptional(f.o) ELSE PasswordField(f.o)
      [] f.kind = "boolean" -> IF f.optional THEN BooleanFieldOptional(f.o) ELSE BooleanField(f.o)
      [] f.kind = "email" -> IF f.optional THEN EmailFieldOptional(f.o) ELSE EmailField(f.o)
      [] f.kind = "uuid" -> IF f.optional THEN UUIDFieldOptional(f.o) ELSE UUIDField(f.o)
      [] f.kind = "url" -> IF f.optional THEN URLFieldOptional(f.o) ELSE URLField(f.o)
      [] f.kind = "date" -> IF f.optional THEN DateFieldOptional(f.o) ELSE DateField(f.o)
      [] f.kind = "enum" -> IF f.optional THEN EnumFieldOptional(Enum, f.o) ELSE EnumField(Enum, f.o)
      [] f.kind = "class" -> IF f.optional THEN ClassFieldOptional(f.o) ELSE ClassField(f.o)

\* Every kind with every option that bears on its checks (Swagger's minimum does
\* not); each only where all the checks of the decorator are told of it.
OptionsOf(kind) ==
    {<<>>, [nullable |-> TRUE]}
    \cup (IF kind \in {"number", "string", "token", "uuid", "url", "enum", "class"}
          THEN {[each |-> TRUE], [each |-> TRUE, nullable |-> TRUE]} ELSE {})
    \cup (IF kind = "number"
          THEN {[int |-> TRUE], [min |-> 0, max |-> 1], [isPositive |-> TRUE, nullable |-> TRUE]} ELSE {})
    \cup (IF kind \in {"string", "password", "email", "url"}
          THEN {[maxLength |-> 6], [toUpperCase |-> TRUE, nullable |-> TRUE], [toLowerCase |-> TRUE]} ELSE {})
    \cup (IF kind = "string" THEN {[minLength |-> 5], [minLength |-> 0]} ELSE {})
    \cup (IF kind = "class" THEN {[required |-> FALSE]} ELSE {})
Declared == {f \in UNION {[kind : {kind}, optional : BOOLEAN, o : OptionsOf(kind)] : kind \in Kinds} :
                f.kind = "token" => ~f.optional}

Simple == {Text(w) : w \in DOMAIN Words} \cup {Number(h) : h \in {14, 0, -2, 3}}
          \cup {Boolean(TRUE), Boolean(FALSE), Null, Object}
Raw == Simple \cup {Undefined, List(<<>>)} \cup {List(<<v, Text("uuid")>>) : v \in Simple}
       \cup {List(<<v, v>>) : v \in Simple}

Lower(f) == Opt(f.o, "toLowerCase", f.kind = "email") /\ ~Opt(f.o, "toUpperCase", FALSE)
Cased(f) == f.kind \in {"string", "password", "email", "url"}
            /\ (Opt(f.o, "toUpperCase", FALSE) \/ Opt(f.o, "toLowerCase", f.kind = "email"))
ShortestText(f) ==
    CASE f.kind = "password" -> 6
      [] f.kind # "password" /\ Cased(f) -> IF Opt(f.o, "minLength", 1) = 0 THEN 1 ELSE Opt(f.o, "minLength", 1)
      [] OTHER -> Opt(f.o, "minLength", IF f.optional /\ f.kind = "string" THEN 0 ELSE 1)

\* One value of the kind the field is for.
Good(f, v) ==
    CASE f.kind = "number" ->
            /\ IsNumber(v)
            /\ Opt(f.o, "int", FALSE) => v[2] % 2 = 0
            /\ "min" \in DOMAIN f.o => v[2] >= 2 * f.o.min
            /\ "max" \in DOMAIN f.o => v[2] <= 2 * f.o.max
            /\ "minimum" \in DOMAIN f.o => v[2] >= 2 * f.o.minimum
            /\ Opt(f.o, "isPositive", FALSE) => v[2] > 0
      [] f.kind \in {"string", "password", "email", "url"} ->
            /\ IsText(v) /\ Words[v[2]].length \in ShortestText(f)..Opt(f.o, "maxLength", 40)
            /\ Cased(f) => v[2] = IF Lower(f) THEN Words[v[2]].lower ELSE Words[v[2]].upper
            /\ f.kind = "password" => Looks(v, "allowed")
            /\ f.kind \in {"email", "url"} => Looks(v, f.kind)
      [] f.kind = "token" -> Looks(v, "jwt")
      [] f.kind = "uuid" -> Looks(v, "uuid")
      [] f.kind = "boolean" -> v \in {Boolean(TRUE), Boolean(FALSE)}
      [] f.kind = "date" -> v = Date
      [] f.kind = "enum" -> v \in {Text(w) : w \in Opt(f.o, "enum", Enum)}
      [] f.kind = "class" -> v = Object

\* A list of class values needs no each; a field with each takes one value too;
\* a field that changes the case loses its null.
Promised(f, v) ==
    \/ v \notin {Null, Undefined} /\ ~IsList(v) /\ Good(f, v)
    \/ /\ IsList(v) /\ (f.kind = "class" \/ Opt(f.o, "each", FALSE))
       /\ \A k \in DOMAIN v[2] : v[2][k] # Null /\ Good(f, v[2][k])
    \/ v = Null /\ (f.optional \/ (Opt(f.o, "nullable", FALSE) /\ ~Cased(f)))
    \/ v = Undefined /\ (f.optional \/ (f.kind = "class" /\ ~Opt(f.o, "required", TRUE)))

(* Every field lets through exactly the values its kind and options tell,  *)
(* whatever the client sent, and hands them on as they were sent (what an  *)
(* optional field that changes the case makes of null and '' is nothing).  *)
EveryFieldPromises ==
    \A f \in Declared, raw \in Raw :
        LET given == Transformed(Decorate(f), raw)
        IN  /\ Passes(Decorate(f), given) <=> given # Throws /\ Promised(f, given)
            /\ Promised(f, raw) => given = raw \/ (given = Undefined /\ f.optional /\ Cased(f))
=============================================================================
