------------------------------- MODULE Subjects ------------------------------
(***************************************************************************)
(* Subject identifiers of the secevent library (secevent/pkg/subject):     *)
(* how they are made, written as JSON, read back and validated.  An        *)
(* operation that may fail is a set: its result, or nothing.               *)
(***************************************************************************)
EXTENDS Naturals, Sequences, FiniteSets

\* A string as the library tells strings apart: blank; of the shape its field
\* asks for; text that is not; text that not even url.Parse takes.  It may be
\* surrounded by white space.
String == [is: {"blank", "proper", "plain", "malformed"}, padded: BOOLEAN]

Blank == [is |-> "blank", padded |-> FALSE]

TrimSpace(text) == [text EXCEPT !.padded = FALSE]

\* What the library knows of a simple subject: its members beside the format,
\* and the texts that each of them takes.
Type(fields, takes) == [fields |-> fields, takes |-> takes]

NotBlank == {"proper", "plain", "malformed"}

EmailSubject     == Type({"email"}, {"proper"})
PhoneSubject     == Type({"phone"}, NotBlank)
IssuerSubSubject == Type({"issuer", "sub"}, NotBlank)
\* An empty string is a URI.
URISubject       == Type({"uri"}, {"blank", "proper", "plain"})
OpaqueSubject    == Type({"id"}, NotBlank)
AccountSubject   == Type({"uri"}, {"proper"})
DIDSubject       == Type({"url"}, {"proper"})
JWTIDSubject     == Type({"iss", "jti"}, NotBlank)
SAMLIDSubject    == Type({"issuer", "assertion_id"}, NotBlank)

TypeOf ==
  [email |-> EmailSubject, phone_number |-> PhoneSubject, iss_sub |-> IssuerSubSubject,
   uri |-> URISubject, opaque |-> OpaqueSubject, account |-> AccountSubject,
   did |-> DIDSubject, jwt_id |-> JWTIDSubject, saml_assertion_id |-> SAMLIDSubject]

SimpleFormats == DOMAIN TypeOf

FieldsOf(format) == TypeOf[format].fields

Takes(format, text) == text.is \in TypeOf[format].takes

\* A subject, in memory or as JSON, is a tree of nodes, each at its path of
\* component names; the root is at <<>>.  A complex node has no fields, its
\* components are below it.
Node(format, fields) == [format |-> format, fields |-> fields]

Components == {"user", "device", "session", "application", "tenant", "org_unit", "group"}

Simple(format, fields) == [path \in {<<>>} |-> Node(format, fields)]

IsComplex(node) == node.format = "complex"

-----------------------------------------------------------------------------
\* What Validate asks of a simple subject.
Sound(node) == \A f \in FieldsOf(node.format) : Takes(node.format, node.fields[f])

\* A complex subject has a component, and each component is valid.
ValidSubject(s) ==
  \A path \in DOMAIN s :
    IF IsComplex(s[path]) THEN \E c \in Components : Append(path, c) \in DOMAIN s
                          ELSE Sound(s[path])

\* Every constructor of a simple subject trims its arguments and checks what
\* Validate checks.
NewSimple(ask) ==
  LET node == Node(ask.format, [f \in FieldsOf(ask.format) |-> TrimSpace(ask.fields[f])])
  IN IF Sound(node) THEN {node} ELSE {}

NewNode(ask) == IF IsComplex(ask) THEN {ask} ELSE NewSimple(ask)

\* The subject a program composes, or nothing if a constructor refuses an argument.
MakeSubject(ask) ==
  IF \A path \in DOMAIN ask : NewNode(ask[path]) # {}
  THEN {[path \in DOMAIN ask |-> CHOOSE node \in NewNode(ask[path]) : TRUE]}
  ELSE {}

\* The formats ParseSimpleSubject knows.
ParsableFormats == {"email", "phone_number", "iss_sub", "uri", "opaque"}

\* Fields are trimmed, not checked; one that is missing is empty.
UnmarshalSimple(json) ==
  Node(json.format,
       [f \in FieldsOf(json.format) |-> IF f \in DOMAIN json.fields
                                        THEN TrimSpace(json.fields[f]) ELSE Blank])

UnmarshalNode(json) == IF IsComplex(json) THEN json ELSE UnmarshalSimple(json)

\* Whether ParseSubject knows every format that occurs in a subject.
Readable(json) == \A path \in DOMAIN json : json[path].format \in ParsableFormats \cup {"complex"}

\* Each component is a subject of its own; one that cannot be read spoils it.
ParseSubject(json) ==
  IF Readable(json) THEN {[path \in DOMAIN json |-> UnmarshalNode(json[path])]} ELSE {}
=============================================================================
