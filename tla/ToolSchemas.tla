----------------------------- MODULE ToolSchemas -----------------------------
(***************************************************************************)
(* A parameter of a tool, from its type to the JSON schema a model is      *)
(* shown, and from the JSON a model sends to the value the tool runs with: *)
(* YoruTypeToJSONSchemaWith, validateArgType and jsonValueToAST, which     *)
(* each know the types of their own, and InvokeToolJSON, which calls them. *)
(*                                                                         *)
(* A type is a tree: a name of a declared type is the declaration.  JSON   *)
(* values are told apart as far as these functions do.                     *)
(***************************************************************************)
EXTENDS Naturals, Sequences

CONSTANTS
    Parameters,     \* declarations: [type, default], the latter whether there is one
    Documents,      \* JSON values
    Admits(_, _)    \* whether a JSON schema admits a JSON value

VARIABLES
    parameter,
    argument,       \* what the model sends for it: no or one JSON value
    progress,       \* "shown", "sent", "refused" or "ran"
    received        \* what the body of the tool has for it

tsVars == <<parameter, argument, progress, received>>

Scalars == [Int |-> "integer", Float |-> "number", String |-> "string", Bool |-> "boolean"]

TsInit ==
    /\ parameter \in Parameters
    /\ argument = <<>> /\ progress = "shown" /\ received = <<>>

\* fieldIsOptional, for the schema.
FieldIsOptional(f) == f.type.is = "option" \/ f.default

\* The same test, as the validation makes it in three places.
Optional(f) == f.type.is = "option" \/ f.default

StripOption(t) == IF t.is = "option" THEN t.of ELSE t
-----------------------------------------------------------------------------
(* The schema. *)

RECURSIVE Schema(_)

\* objectSchema, and a branch of enumSchema, whose discriminator is "kind".
FieldsSchema(fields, kind) ==
    [type |-> "object", kind |-> kind,
     properties |-> [f \in DOMAIN fields |-> Schema(fields[f].type)],
     required |-> {f \in DOMAIN fields : ~FieldIsOptional(fields[f])}]

AllUnit(variants) == \A v \in DOMAIN variants : DOMAIN variants[v] = {}

Schema(t) ==
    CASE t.is = "option" -> Schema(t.of)
      [] t.is = "list" -> [type |-> "array", items |-> Schema(t.of)]
      [] t.is \in DOMAIN Scalars -> [type |-> Scalars[t.is]]
      [] t.is = "object" -> FieldsSchema(t.fields, {})
      [] t.is = "enum" ->
           IF AllUnit(t.variants) THEN [type |-> "enum", names |-> DOMAIN t.variants]
           ELSE [type |-> "anyOf",
                 branches |-> {FieldsSchema(t.variants[v], {v}) : v \in DOMAIN t.variants}]
      [] OTHER -> [type |-> "string"]
-----------------------------------------------------------------------------
(* The validation. *)

RECURSIVE Valid(_, _)

\* validateObjectArg, and what validateEnumArg does with a variant.
ValidFields(json, fields) ==
    \A f \in DOMAIN fields :
        IF f \in DOMAIN json.fields THEN Valid(json.fields[f], fields[f].type)
        ELSE Optional(fields[f])

\* validateEnumArg.
ValidEnum(json, variants) ==
    \/ /\ json.is = "string" /\ json.text \in DOMAIN variants
       /\ DOMAIN variants[json.text] = {}
    \/ /\ json.is = "object" /\ "kind" \in DOMAIN json.fields
       /\ LET kind == json.fields["kind"] IN
          /\ kind.is = "string" /\ kind.text \in DOMAIN variants
          /\ ValidFields(json, variants[kind.text])

\* validateArgType: null goes as anything.
Valid(json, type) ==
    LET t == StripOption(type) IN
    \/ json.is = "null"
    \/ t.is = "list" /\ json.is = "array" /\ \A i \in DOMAIN json.of : Valid(json.of[i], t.of)
    \/ t.is = "Int" /\ json.is = "whole"
    \/ t.is = "Float" /\ json.is \in {"whole", "fraction"}
    \/ t.is = "String" /\ json.is = "string"
    \/ t.is = "Bool" /\ json.is = "boolean"
    \/ t.is = "enum" /\ ValidEnum(json, t.variants)
    \/ t.is = "object" /\ json.is = "object" /\ ValidFields(json, t.fields)
    \/ t.is \in {"option", "other"}     \* an Option in an Option, an unknown name
-----------------------------------------------------------------------------
(* The conversion, which gives no value when it cannot. *)

RECURSIVE Converted(_, _)

Untyped == [is |-> "other"]
NilValue == [is |-> "nil"]

ItemValues(json, t) ==
    LET all == [i \in DOMAIN json.of |-> Converted(json.of[i], t)]
        join[i \in 0..Len(all)] == IF i = 0 THEN <<>> ELSE join[i - 1] \o all[i]
    IN join[Len(all)]

\* The fields of a declaration that the JSON has.
Fields(json, fields) ==
    LET given == {f \in DOMAIN fields \cap DOMAIN json.fields :
                     Converted(json.fields[f], fields[f].type) # <<>>} IN
    [f \in given |-> Converted(json.fields[f], fields[f].type)[1]]

\* jsonValueToEnumAST.
ConvertedEnum(json, variants) ==
    CASE json.is = "string" ->
           <<[is |-> "enum", variant |-> json.text, fields |-> <<>>]>>
      [] json.is = "object" /\ "kind" \in DOMAIN json.fields
         /\ json.fields["kind"].is = "string"
         /\ json.fields["kind"].text \in DOMAIN variants ->
           LET v == json.fields["kind"].text IN
           <<[is |-> "enum", variant |-> v, fields |-> Fields(json, variants[v])]>>
      [] OTHER -> <<>>

\* What Converted could be, were the declared type not looked up.
ConvertedUntagged(json, type) ==
    CASE json.is = "null" -> <<NilValue>>
      [] json.is = "array" -> <<[is |-> "list", of |-> ItemValues(json, Untyped)]>>
      [] json.is = "object" -> <<[is |-> "object",
                fields |-> Fields(json, [f \in DOMAIN json.fields |-> [type |-> Untyped]])]>>
      [] json.is = "whole" -> <<[is |-> "Int"]>>
      [] json.is = "fraction" -> <<[is |-> "Float"]>>
      [] json.is = "string" -> <<[is |-> "String"]>>
      [] json.is = "boolean" -> <<[is |-> "Bool"]>>

\* jsonValueToAST: what has a declared shape gets it, the rest by its JSON.
Converted(json, type) ==
    LET t == StripOption(type) IN
    CASE json.is = "null" -> <<NilValue>>
      [] json.is = "array" /\ t.is = "list" -> <<[is |-> "list", of |-> ItemValues(json, t.of)]>>
      [] t.is = "list" /\ json.is \notin {"null", "array"} -> <<>>
      [] t.is = "enum" /\ json.is # "null" -> ConvertedEnum(json, t.variants)
      [] t.is = "object" /\ json.is = "object" ->
           <<[is |-> "object", fields |-> Fields(json, t.fields)]>>
      [] t.is = "object" /\ json.is \notin {"null", "object"} -> <<>>
      [] json.is = "whole" -> <<[is |-> "Int"]>>
      [] json.is = "fraction" -> <<[is |-> "Float"]>>
      [] json.is = "string" -> <<[is |-> "String"]>>
      [] json.is = "boolean" -> <<[is |-> "Bool"]>>
      [] json.is = "array" -> <<[is |-> "list", of |-> ItemValues(json, Untyped)]>>
      [] OTHER -> <<[is |-> "object",
                fields |-> Fields(json, [f \in DOMAIN json.fields |-> [type |-> Untyped]])]>>
-----------------------------------------------------------------------------
Send ==
    /\ progress = "shown" /\ progress' = "sent"
    /\ argument' \in {<<>>} \cup {<<json>> : json \in Documents}
    /\ UNCHANGED <<parameter, received>>

\* InvokeToolJSON, of this parameter: whether it is missing, then its type.
Accepted ==
    IF argument = <<>> THEN Optional(parameter) ELSE Valid(argument[1], parameter.type)

RefuseInput ==
    /\ progress = "sent" /\ ~Accepted
    /\ progress' = "refused"
    /\ UNCHANGED <<parameter, argument, received>>

\* evalToolRun: what is missing or nil is the default, if there is one.
Run ==
    /\ progress = "sent" /\ Accepted
    /\ progress' = "ran"
    /\ LET given == IF argument = <<>> THEN <<>> ELSE Converted(argument[1], parameter.type) IN
       received' = IF given \in {<<>>, <<NilValue>>}
                   THEN <<IF parameter.default THEN [is |-> "default"] ELSE NilValue>>
                   ELSE given
    /\ UNCHANGED <<parameter, argument>>

TsNext == Send \/ RefuseInput \/ Run

TsSpec == TsInit /\ [][TsNext]_tsVars
-----------------------------------------------------------------------------
(* Properties. *)

\* A model that keeps to the schema it is shown is not refused: what the
\* schema admits the validation takes, at any depth.
SchemaIsAccepted ==
    progress = "refused" =>
        IF argument = <<>> THEN ~FieldIsOptional(parameter)
        ELSE ~Admits(Schema(parameter.type), argument[1])

RECURSIVE Inhabits(_, _)

\* What a declared type holds, as far as the runtime goes: nil is of any type,
\* a whole number is an Int, and a type of an unknown name holds anything.
InhabitsFields(value, fields) ==
    \A f \in DOMAIN fields :
        IF f \in DOMAIN value.fields THEN Inhabits(value.fields[f], fields[f].type)
        ELSE Optional(fields[f])

Inhabits(value, type) ==
    LET t == StripOption(type) IN
    \/ value.is \in {"nil", "default"}
    \/ t.is \in {"option", "other"}
    \/ t.is \in {"Int", "Float"} /\ value.is = "Int"
    \/ t.is \in {"Float", "String", "Bool"} /\ value.is = t.is
    \/ t.is = "list" /\ value.is = "list" /\ \A i \in DOMAIN value.of : Inhabits(value.of[i], t.of)
    \/ t.is = "object" /\ value.is = "object" /\ DOMAIN value.fields \subseteq DOMAIN t.fields
         /\ InhabitsFields(value, t.fields)
    \/ t.is = "enum" /\ value.is = "enum" /\ value.variant \in DOMAIN t.variants
         /\ InhabitsFields(value, t.variants[value.variant])

\* A tool runs with a value of its parameter's type, or with nil: what the
\* validation let through, the conversion gives the declared shape.
RunsWithItsType ==
    progress = "ran" => received # <<>> /\ Inhabits(received[1], parameter.type)

\* The schema, the validation and the conversion speak of one type.
ThreeViewsAgree == SchemaIsAccepted /\ RunsWithItsType
=============================================================================
