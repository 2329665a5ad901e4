----------------------------- MODULE MCSecEvents -----------------------------
(***************************************************************************)
(* Small instances of SecEvents: drafts that vary the subject, or the      *)
(* event, or the claims around them, and tokens from elsewhere that lack   *)
(* or spoil one thing each.                                                *)
(***************************************************************************)
EXTENDS SecEvents

Text(is, padded) == [is |-> is, padded |-> padded]

AskSimple(format, text) == Simple(format, [f \in FieldsOf(format) |-> text])

Proper(format) == AskSimple(format, Text("proper", FALSE))

\* A complex subject with these subjects as its components.
Complex(parts) ==
  LET below == UNION {{<<c>> \o path : path \in DOMAIN parts[c]} : c \in DOMAIN parts}
  IN [path \in {<<>>} \cup below |->
        IF path = <<>> THEN Node("complex", <<>>) ELSE parts[Head(path)][Tail(path)]]

User(s) == Complex([user |-> s])

OpaqueAsk == Proper("opaque")

\* Simple subjects of every format and text; complex ones of one or two
\* components, or none, and a complex one within a complex one.
Asks ==
  {AskSimple(format, text) : format \in SimpleFormats, text \in String}
  \cup {User(Proper(format)) : format \in SimpleFormats}
  \cup {Complex(<<>>), User(Complex(<<>>)), User(User(Proper("email"))), User(User(Proper("did"))),
        Complex([user |-> Proper("iss_sub"), device |-> Proper("opaque")]),
        Complex([group |-> Proper("email"), tenant |-> AskSimple("uri", Blank)])}

Ask(kind, payload) == [kind |-> kind, payload |-> payload]

Level(current, previous, direction) ==
  Ask("assurance", [current_level |-> current, previous_level |-> previous,
                    change_direction |-> direction])

Compliance(current, previous) ==
  Ask("compliance", [current_status |-> current, previous_status |-> previous])

Session == Ask("session", <<>>)

Credential(type, change) ==
  Ask("credential", [credential_type |-> type, change_type |-> change])

With(ask, name, value) ==
  [ask EXCEPT !.payload = [m \in DOMAIN ask.payload \cup {name} |->
                             IF m = name THEN value ELSE ask.payload[m]]]

Events ==
  {Level(current, previous, direction) : current \in {"aal1", "aal2", "other"},
     previous \in {"aal1", "other"}, direction \in {"increase", "decrease", "other"}}
  \cup {Compliance(current, "compliant") : current \in {"compliant", "not-compliant", "other"}}
  \cup {Ask("claims", [claims |-> some]) : some \in {"some", "none"}}
  \cup {With(Session, name, value) : name \in {"event_timestamp"}, value \in {"time", "negative"}}
  \cup {With(Session, "initiating_entity", entity) : entity \in {"admin", "other"}}
  \cup {Credential(type, change) : type \in {"password", "other"}, change \in {"create", "other"}}
  \cup {With(With(Credential("x509", "create"), "x509_issuer", "given"), "x509_serial", "given"),
        With(Credential("x509", "create"), "x509_issuer", "given")}
  \cup {Ask("update", [status |-> status]) : status \in {"enabled", "other"}}
  \cup {Session, Ask("verification", <<>>), Ask("verification", [state |-> "given"])}

Id(encoding, length, prefix) == [encoding |-> encoding, length |-> length, prefix |-> prefix]

UUID == Id("uuid", UUIDLength, 0)

Draft(shape, iss, gen, aud, ask, events) ==
  [shape |-> shape, iss |-> iss, gen |-> gen, aud |-> aud, ask |-> ask, events |-> events]

Valid1 == Level("aal2", "aal1", "increase")

\* One draft for each audience.
SmallVaried ==
  {Draft("single", "i1", UUID, aud, {OpaqueAsk}, <<Session>>) : aud \in {{}, {"a1"}, {"a1", "a2"}}}

SmallDrafts ==
  {Draft("single", "i1", UUID, {"a1"}, {ask}, <<Session>>) : ask \in Asks}
  \cup {Draft(shape, "i1", UUID, {"a1"}, {OpaqueAsk}, <<e>>) : shape \in {"single", "multi"}, e \in Events}
  \cup {Draft("single", "i1", Id(encoding, length, prefix), {"a1"}, {OpaqueAsk}, <<Session>>) :
          encoding \in {"hex", "base64"}, length \in 0..9, prefix \in {0, 4}}
  \cup {Draft(shape, iss, UUID, aud, ask, events) :
          shape \in {"single", "multi"}, iss \in {"i1", "none"}, aud \in {{}, {"a1", "a2"}},
          ask \in {{}, {OpaqueAsk}},
          events \in {<<>>, <<Session, Session>>, <<Valid1, Session>>,
                      <<Valid1, Credential("password", "create")>>,
                      <<Credential("password", "create"), Valid1>>}}
  \cup SmallVaried

Payloads(asks) == [t \in {ask.kind : ask \in asks} |->
                     (CHOOSE ask \in asks : ask.kind = t).payload]

Sent(iss, jti, subs, events) ==
  [iss |-> iss, jti |-> jti, aud |-> {"a1"}, subs |-> subs, events |-> events]

\* Subjects that are padded, blank, of a wrong shape, without a field, of a
\* format nobody knows; events of an unknown type or under a wrong one; claims
\* that are missing.
SmallForeign ==
  {Sent("i1", 1, {AskSimple(format, text)}, Payloads({Session})) :
     format \in {"email", "uri", "iss_sub", "account"}, text \in String}
  \cup {Sent("i1", 1, {s}, Payloads({Session})) :
          s \in {Simple("email", <<>>), Simple("iss_sub", [sub |-> Text("proper", TRUE)]),
                 Simple("ticket", <<>>), User(Simple("uri", <<>>)), User(Simple("ticket", <<>>))}}
  \cup {Sent("i1", 1, {OpaqueAsk}, Payloads({e})) : e \in Events}
  \cup {Sent("i1", 1, {OpaqueAsk}, events) :
          events \in {<<>>, [ticket |-> <<>>], [credential |-> Valid1.payload],
                      Payloads({Session, Valid1}), Payloads({Session, Level("aal1", "aal1", "increase")})}}
  \cup {Sent("none", 1, {OpaqueAsk}, Payloads({Session})),
        Sent("i1", 0, {OpaqueAsk}, Payloads({Session})),
        Sent("i1", 1, {}, Payloads({Session}))}

SmallLists == {<<"a1">>, <<"a1", "a2">>}
=============================================================================
