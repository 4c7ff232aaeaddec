------------------------------ MODULE SdkClient ------------------------------
(***************************************************************************)
(* A program that uses the Python SDK: it reads an object from the API     *)
(* server, assigns to its fields, writes it back and parses the answers.   *)
(* Every model class has its turn: the object stored is one of class       *)
(* klass, on its own or standing for the part of a JobSet that the class   *)
(* describes.                                                              *)
(*                                                                         *)
(* The server may refuse a call, fail before or after it has stored the    *)
(* object, or answer with a body that is not what was asked for (a proxy's *)
(* error page, nothing at all); the connection may break.                  *)
(***************************************************************************)
EXTENDS SdkModels, JobSetApi

CONSTANTS
  FaultyClasses,   \* the classes whose calls may go wrong
  ErrorStatuses,   \* the statuses other than 200 that the server may answer with
  MaxAssignments,  \* bound on the assignments of a behaviour
  MaxCalls         \* bound on the calls of a behaviour

ASSUME ClientAssumption ==
  /\ FaultyClasses \subseteq DOMAIN Models
  /\ ErrorStatuses \subseteq (300..599)
  /\ MaxAssignments \in Nat /\ MaxCalls \in Nat

VARIABLES
  klass,        \* the class of the object
  stored,       \* the object, as JSON on the API server
  obj,          \* the program's object of that class, or None
  assigned,     \* the fields assigned to since it was read or written
  response,     \* the answer to the last call until it is parsed, or NoResponse
  result,       \* how the last call ended
  assignments, calls

vars == <<klass, stored, obj, assigned, response, result, assignments, calls>>

-----------------------------------------------------------------------------
(***************************************************************************)
(* The objects the API server sends, by the types of the API: the fields   *)
(* that are always there, and one more field with one of the values that   *)
(* are easily mistaken for no value or for another type; or all fields at  *)
(* once, but for those that refer to other objects.                        *)
(***************************************************************************)
RECURSIVE MinDoc(_)

\* A value of type t.
RECURSIVE Sample(_)
Sample(t) ==
  CASE t[1] \in {"StrictStr", "IntOrString"} -> <<"str", "s">>
    [] t[1] \in {"StrictInt", "positive"} -> <<"int", 1>>
    [] t = StrictBool -> <<"bool", TRUE>>
    [] t = datetime -> <<"str", Rfc3339>>
    [] t[1] = "Dict" -> dict([k |-> <<"str", "s">>])
    [] t[1] \in {"List", "List1"} -> <<"list", <<Sample(t[2])>>>>
    [] t[1] = "Ref" -> MinDoc(t[2])

Always(c) == {n \in DOMAIN Fields[c] : Fields[c][n].sent}
MinDoc(c) == dict([n \in Always(c) |-> Sample(Fields[c][n].type)])

Simple(t) == t[1] # "Ref" /\ ~(t[1] \in {"List", "List1"} /\ t[2][1] = "Ref")
FullDoc(c) ==
  dict([n \in Always(c) \cup {n \in DOMAIN Fields[c] : Simple(Fields[c][n].type)} |->
          Sample(Fields[c][n].type)])

Variants(t) ==
  {Sample(t)} \cup
  CASE t[1] = "StrictStr" -> {<<"str", "">>}
    [] t[1] = "IntOrString" -> {<<"int", 80>>}
    [] t[1] = "StrictInt" -> {<<"int", 0>>}
    [] t[1] = "StrictBool" -> {<<"bool", FALSE>>}
    [] t[1] = "Dict" -> {dict(<<>>)}
    [] t[1] \in {"List", "List1"} -> {<<"list", <<>>>>}
    [] t[1] = "Ref" -> {FullDoc(t[2])}
    [] OTHER -> {}

\* JSON with v for field n.
With(d, n, v) == dict((n :> v) @@ d[2])

Docs(c) ==
  {MinDoc(c), FullDoc(c), With(MinDoc(c), "aFieldOfALaterVersion", <<"int", 1>>)} \cup
  UNION {{With(MinDoc(c), n, v) :
            v \in Variants(Fields[c][n].type) \cup (IF n \in Always(c) THEN {} ELSE {None})} :
         n \in DOMAIN Fields[c]}

Answer(status, content, body) == [status |-> status, content |-> content, body |-> body]
NoResponse == Answer(0, "none", None)

Init ==
  /\ klass \in DOMAIN Models
  /\ stored \in Docs(klass)
  /\ obj = None /\ assigned = {} /\ response = NoResponse /\ result = "none"
  /\ assignments = 0 /\ calls = 0

-----------------------------------------------------------------------------
(* Calls. *)

\* Bodies that are not JSON.
Page == <<"text", "<html>">>
Empty == <<"text", "">>

\* The answers to a call after which the server holds d: the object, or an error
\* with an object, a page or nothing; a page in place of the object.
Answers(d) ==
  {Answer(200, "application/json", d)} \cup
  IF klass \notin FaultyClasses THEN {}
  ELSE {Answer(s, c, b) : s \in ErrorStatuses, b \in {dict(<<>>), Page, Empty},
                          c \in {"application/json", "text/plain", "image/png", "none"}}
       \cup {Answer(200, c, b) : b \in {Page, Empty},
                                 c \in {"application/json", "text/plain", "image/png", "none"}}

\* A call of rest_client.request that stores d: it is answered, or the connection
\* breaks before or after the server has done its part.
call_api(d) ==
  /\ response = NoResponse /\ calls < MaxCalls
  /\ calls' = calls + 1
  /\ \/ /\ stored' = d
        /\ response' \in Answers(d)
        /\ UNCHANGED result
     \/ /\ klass \in FaultyClasses
        /\ stored' = stored
        /\ response' \in {a \in Answers(d) : a.status # 200}
        /\ UNCHANGED result
     \/ /\ klass \in FaultyClasses
        /\ stored' \in {stored, d}
        /\ result' = "ConnectionError"
        /\ UNCHANGED response
  /\ UNCHANGED <<klass, obj, assigned, assignments>>

Get == call_api(stored)

\* The body is the sanitised object.
Put == obj # None /\ call_api(sanitize_for_serialization(obj))

-----------------------------------------------------------------------------
(* Answers. *)

from_response(status) ==
  CASE status = 400 -> "BadRequestException"
    [] status = 401 -> "UnauthorizedException"
    [] status = 403 -> "ForbiddenException"
    [] status = 404 -> "NotFoundException"
    [] status = 409 -> "ConflictException"
    [] status = 422 -> "UnprocessableEntityException"
    [] status \in 500..599 -> "ServiceException"
    [] OTHER -> "ApiException"

\* The type to parse an answer as: success is of the class asked for, and any
\* error of the server's is some object.
response_type(status) ==
  CASE status = 200 -> Ref(klass)
    [] status \in 400..499 -> <<"object">>
    [] OTHER -> None

\* Mutant: an empty answer is no value.
EmptyIsNoneMutant(a) ==
  LET text == IF IsA(a.body, "text") THEN <<"str", a.body[2]>> ELSE <<"str", "{...}">>
  IN  CASE a.body = Empty -> None
        [] a.content = "none" -> IF IsA(a.body, "text") THEN text ELSE a.body
        [] a.content = "application/json" -> IF a.body = Page THEN <<"ValueError">> ELSE a.body
        [] a.content = "text/plain" -> text
        [] OTHER -> <<"ApiException">>

\* The text of an answer, parsed as its content type asks.
Parsed(a) ==
  LET text == IF IsA(a.body, "text") THEN <<"str", a.body[2]>> ELSE <<"str", "{...}">>
  IN  CASE a.content = "none" -> IF IsA(a.body, "text") THEN text ELSE a.body
        [] a.content = "application/json" -> IF a.body = Empty THEN <<"str", "">>
                                             ELSE IF a.body = Page THEN <<"ValueError">>
                                             ELSE a.body
        [] a.content = "text/plain" -> text
        [] OTHER -> <<"ApiException">>

Exceptions == {"ValueError", "ApiException", "ValidationError", "TypeError"}

\* The value an answer is turned into, or the exception raised on the way.
Deserialized(a) ==
  IF response_type(a.status) = None THEN None
  ELSE IF Parsed(a)[1] \in Exceptions THEN Parsed(a)
  ELSE deserialize(Parsed(a), response_type(a.status))

\* read, then response_deserialize: whatever happens while an answer other than
\* 2xx is converted, the exception of its status is raised.
response_deserialize ==
  /\ response # NoResponse
  /\ LET v == Deserialized(response)
     IN  IF response.status \notin 200..299
         THEN result' = from_response(response.status) /\ UNCHANGED <<obj, assigned>>
         ELSE IF v[1] \in Exceptions
         THEN result' = v[1] /\ UNCHANGED <<obj, assigned>>
         ELSE result' = "ok" /\ obj' = v /\ assigned' = {}
  /\ response' = NoResponse
  /\ UNCHANGED <<klass, stored, assignments, calls>>

\* Assignment to a field of the object, which validates the value.
Assign(n, v) ==
  /\ obj # None /\ response = NoResponse
  /\ assignments < MaxAssignments
  /\ assignments' = assignments + 1
  /\ LET w == CoerceField(Models[klass][n], v)
     IN  IF w = ValidationError
         THEN result' = "ValidationError" /\ UNCHANGED <<obj, assigned>>
         ELSE /\ obj' = <<"obj", klass, [obj[3] EXCEPT ![n] = w]>>
              /\ assigned' = assigned \cup {n}
              /\ UNCHANGED result
  /\ UNCHANGED <<klass, stored, response, calls>>

Next ==
  \/ Get \/ Put \/ response_deserialize
  \/ \E n \in DOMAIN Models[klass] :
       \E v \in {None} \cup Variants(Models[klass][n].type) : Assign(n, v)

Spec == Init /\ [][Next]_vars

-----------------------------------------------------------------------------
(* Properties *)

RECURSIVE Spelt(_)

\* JSON with every instant spelt in one way.
Spelt(v) ==
  CASE v = <<"str", Iso8601>> -> <<"str", Rfc3339>>
    [] IsA(v, "list") -> <<"list", [i \in DOMAIN v[2] |-> Spelt(v[2][i])]>>
    [] IsA(v, "dict") -> dict([k \in DOMAIN v[2] |-> Spelt(v[2][k])])
    [] OTHER -> v

\* Writing an object back changes on the server only what was assigned to: every
\* other field of the API's type keeps its value, whether it is absent, null, empty,
\* zero, false, a nested object or an instant (which may be spelt differently),
\* and none appears (from_dict, to_dict, sanitize_for_serialization).
WritesOnlyAssigned ==
  [][stored' # stored =>
       \A n \in DOMAIN Fields[klass] \ assigned :
         Spelt(get(stored', n)) = Spelt(get(stored, n))]_vars

\* The object with the values that from_dict puts in place of None.
Filled(o) == <<"obj", o[2], [n \in DOMAIN o[3] |->
                IF o[3][n] = None THEN Models[o[2]][n].missing ELSE o[3][n]]>>

\* What the server answers to a write that it has stored is parsed to an object
\* equal to the one that was written: no value changes its type or is lost on the
\* way out and back in, except that a counter set to None comes back as zero.
ReadsBackWhatWasWritten ==
  [][response # NoResponse /\ result' = "ok" /\ obj # None /\ obj' # None
       /\ Spelt(sanitize_for_serialization(obj)) = Spelt(stored) => obj' = Filled(obj)]_vars

\* The fields of the API's type that JSON has a value for, and the values that from_dict puts
\* in place of none.
Known(d) ==
  dict(Without([n \in DOMAIN Fields[klass] |->
                  IF get(d, n) = None THEN Models[klass][n].missing ELSE get(d, n)], None))

\* A call that ends without an exception leaves the program with the object that the
\* server holds, whatever came as an answer and under whatever content type: an empty
\* body or a page is not taken for an object, and no field of the API is lost on the way in.
SuccessIsTheStoredObject ==
  [][response # NoResponse /\ result' = "ok" =>
       obj' # None /\ Spelt(sanitize_for_serialization(obj')) = Spelt(Known(stored))]_vars

\* Every object of the JobSet API that the server sends is parsed, so that no call is
\* reported as failed although the server has done it: the classes of the SDK require no
\* field that the Go types may omit, declare none with a stricter type, have a class for
\* every type, and do not mind a field they do not know.
EveryObjectParses ==
  [][response # NoResponse /\ response.status = 200 /\ response.body = stored
       /\ klass \in DOMAIN ApiTypes => result' = "ok"]_vars

=============================================================================
