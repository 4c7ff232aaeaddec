------------------------------ MODULE SdkModels ------------------------------
(***************************************************************************)
(* The methods that every model class of the Python SDK has, and the two   *)
(* conversions of ApiClient built on them: from JSON to an object and back.*)
(*                                                                         *)
(* A Python value is a tuple that starts with its type: <<"None">>,        *)
(* <<"str", s>>, <<"int", n>>, <<"bool", b>>, <<"datetime", t>>,           *)
(* <<"list", seq>>, <<"dict", f>> with f a function from keys to values,   *)
(* and <<"obj", c, f>>, an object of class c with field values f.  JSON is *)
(* what json.loads makes of it: a value without datetimes and objects.     *)
(* pydantic, which checks and converts the values of fields, is external.  *)
(***************************************************************************)
EXTENDS SdkClasses, Integers, Sequences

IsA(v, type) == v[1] = type
dict(f) == <<"dict", f>>
get(d, k) == IF k \in DOMAIN d[2] THEN d[2][k] ELSE None
Without(f, v) == [k \in {k \in DOMAIN f : f[k] # v} |-> f[k]]

\* One instant: as the API server writes it, as isoformat does, and as a datetime.
Rfc3339  == "2013-10-20T19:20:30Z"
Iso8601  == "2013-10-20T19:20:30+00:00"
Instant  == <<"datetime", "2013-10-20 19:20:30">>
isoformat(v) == <<"str", Iso8601>>

\* What pydantic raises when a value does not fit.
ValidationError == <<"ValidationError">>

-----------------------------------------------------------------------------
(* pydantic: a value given for a type, converted, or ValidationError. *)

RECURSIVE Coerce(_, _)
RECURSIVE model_validate(_, _)

\* A list, if no element is refused.
Elements(s) == IF \E i \in DOMAIN s : s[i] = ValidationError THEN ValidationError ELSE <<"list", s>>

Coerce(t, v) ==
  CASE t[1] \in {"StrictStr", "IntOrString"} -> IF IsA(v, "str") THEN v ELSE ValidationError
    [] t = StrictInt  -> IF IsA(v, "int") THEN v ELSE ValidationError
    [] t = Positive   -> IF IsA(v, "int") /\ v[2] >= 1 THEN v ELSE ValidationError
    [] t = StrictBool -> IF IsA(v, "bool") THEN v ELSE ValidationError
    [] t = datetime   -> IF IsA(v, "datetime") THEN v
                         ELSE IF v \in {<<"str", Rfc3339>>, <<"str", Iso8601>>} THEN Instant
                         ELSE ValidationError
    [] t = AnyMap     -> IF IsA(v, "dict") THEN v ELSE ValidationError
    [] t = MapOfStr   -> IF IsA(v, "dict") /\ \A k \in DOMAIN v[2] : IsA(v[2][k], "str")
                         THEN v ELSE ValidationError
    [] t[1] = "List"  -> IF IsA(v, "list") THEN Elements([i \in DOMAIN v[2] |-> Coerce(t[2], v[2][i])])
                         ELSE ValidationError
    [] t[1] = "List1" -> IF IsA(v, "list") /\ Len(v[2]) <= 1 THEN Coerce(ListOf(t[2]), v)
                         ELSE ValidationError
    [] t[1] = "Ref"   -> IF IsA(v, "dict") THEN model_validate(t[2], v)
                         ELSE IF IsA(v, "obj") /\ v[2] = t[2] THEN v ELSE ValidationError

\* A value given for a field.
CoerceField(field, v) ==
  IF v # None THEN Coerce(field.type, v) ELSE IF field.required THEN ValidationError ELSE None

\* The value of field n of class c that is not given in d: its default.
Given(c, n, d) == IF n \in DOMAIN d[2] \/ Models[c][n].required THEN get(d, n) ELSE Models[c][n].missing

model_validate(c, d) ==
  LET fields == [n \in DOMAIN Models[c] |-> CoerceField(Models[c][n], Given(c, n, d))]
  IN  IF ~IsA(d, "dict") \/ \E n \in DOMAIN fields : fields[n] = ValidationError
      THEN ValidationError ELSE <<"obj", c, fields>>

-----------------------------------------------------------------------------
(* The methods of the classes. *)

\* Mutant: a value that is not true counts as missing.
FalsyMutant(field, v) == IF v \in {None, <<"str", "">>, <<"int", 0>>, <<"bool", FALSE>>} THEN None ELSE v

RECURSIVE from_dict(_, _)

\* The value from_dict passes on for a field, given the JSON's value for it.
FromJson(field, v) ==
  LET t == field.type
  IN  CASE v = None -> field.missing
        [] v # None /\ t[1] = "Ref" -> from_dict(t[2], v)
        [] v # None /\ t[1] \in {"List", "List1"} /\ t[2][1] = "Ref" ->
             IF IsA(v, "list") THEN Elements([i \in DOMAIN v[2] |-> from_dict(t[2][2], v[2][i])])
             ELSE ValidationError
        [] OTHER -> v

\* Keys that are not fields of the class are left out.
from_dict(c, v) ==
  CASE v = None -> None
    [] IsA(v, "obj") -> IF v[2] = c THEN v ELSE ValidationError
    [] IsA(v, "dict") ->
         LET d == [n \in DOMAIN Models[c] |-> FromJson(Models[c][n], get(v, n))]
         IN  IF \E n \in DOMAIN d : d[n] = ValidationError THEN ValidationError
             ELSE model_validate(c, dict(d))
    [] OTHER -> ValidationError

RECURSIVE to_dict(_)

\* The value to_dict writes for a field that is not None.
ToValue(v) ==
  CASE IsA(v, "obj")  -> to_dict(v)
    [] IsA(v, "list") -> <<"list", [i \in DOMAIN v[2] |->
                            IF IsA(v[2][i], "obj") THEN to_dict(v[2][i]) ELSE v[2][i]]>>
    [] OTHER -> v

\* Mutant: the items of a list are written only if there are some.
EmptyListMutant(o) ==
  LET d == Without(o[3], None)
  IN  dict(Without([n \in DOMAIN d |-> ToValue(d[n])], <<"list", <<>>>>))

to_dict(o) == LET d == Without(o[3], None) IN dict([n \in DOMAIN d |-> ToValue(d[n])])

-----------------------------------------------------------------------------
(* ApiClient. *)

\* What iterating over a value that is no list ends in.
TypeError == <<"TypeError">>

RECURSIVE sanitize_for_serialization(_)
sanitize_for_serialization(v) ==
  CASE IsA(v, "datetime") -> isoformat(v)
    [] IsA(v, "list") -> <<"list", [i \in DOMAIN v[2] |-> sanitize_for_serialization(v[2][i])]>>
    [] IsA(v, "dict") -> dict([k \in DOMAIN v[2] |-> sanitize_for_serialization(v[2][k])])
    [] IsA(v, "obj")  -> sanitize_for_serialization(to_dict(v))
    [] OTHER -> v

\* __deserialize of JSON for a response of type t: a list, a datetime, any value, or a class.
RECURSIVE deserialize(_, _)
deserialize(v, t) ==
  CASE v = None -> None
    [] v # None /\ t[1] = "List" ->
         IF IsA(v, "list") THEN Elements([i \in DOMAIN v[2] |-> deserialize(v[2][i], t[2])])
         ELSE TypeError
    [] v # None /\ t = <<"object">> -> v
    [] v # None /\ t[1] = "Ref" -> from_dict(t[2], v)

=============================================================================
