------------------------------- MODULE SecEvents -----------------------------
(***************************************************************************)
(* The way of a security event token through the secevent library: a       *)
(* program builds it (builder, id, token, subject, schemes), signs it      *)
(* (signing) and sends it; another one sets up a parser and reads it       *)
(* (parser), while the transmitter publishes and retires keys.  Other      *)
(* transmitters send tokens this library did not build.                    *)
(***************************************************************************)
EXTENDS CaepEvents

CONSTANTS
  Keys,           \* signing keys of transmitters, each its own key id
  Issuers,        \* the issuers that occur
  Audiences,      \* receivers a token can be addressed to
  AudienceLists,  \* arguments of WithExpectedAudience: sequences of Audiences
  Drafts,         \* what programs ask the library to build
  Foreign,        \* claims of tokens built elsewhere
  Varied          \* drafts that are signed, and read, in every way (a bound)

ASSUME VariedAssumption == Varied \subseteq Drafts

ASSUME ListsAssumption == AudienceLists \subseteq Seq(Audiences)

\* The arguments have the types of the functions that take them: each text of a
\* simple subject is given, and a payload has the members of its event.
IsAsk(ask) ==
  \A path \in DOMAIN ask :
    \/ ask[path] = Node("complex", <<>>)
    \/ /\ ask[path].format \in SimpleFormats
       /\ ask[path].fields \in [FieldsOf(ask[path].format) -> String]

IsDraft(d) ==
  /\ d.shape \in {"single", "multi"}
  /\ d.iss \in Issuers \cup {"none"}
  /\ d.gen \in [encoding: {"uuid", "hex", "base64"}, length: Nat, prefix: Nat]
  /\ d.aud \subseteq Audiences
  /\ \A ask \in d.ask : IsAsk(ask) /\ d.ask = {ask}
  /\ Len(d.events) \in Nat
  /\ \A i \in 1..Len(d.events) :
       LET kind == d.events[i].kind
           payload == d.events[i].payload
       IN /\ kind \in Kinds
          /\ payload \in [DOMAIN payload -> STRING]
          /\ DOMAIN payload \subseteq MembersOf(kind)

ASSUME DraftsAssumption == \A d \in Drafts : IsDraft(d)

\* The claims of a token, as JSON: jti is the length of the id, subs the subject
\* if there is one, events the payloads by event type.
IsClaims(json) ==
  /\ json = [iss |-> json.iss, jti |-> json.jti, aud |-> json.aud, subs |-> json.subs,
             events |-> json.events]
  /\ json.iss \in Issuers \cup {"none"}
  /\ json.jti \in Nat
  /\ json.aud \subseteq Audiences
  /\ \A s \in json.subs : json.subs = {s}

ASSUME ForeignAssumption == \A json \in Foreign : IsClaims(json)

VARIABLES
  stage,      \* how far the token is
  draft,      \* what the program asked for
  random,     \* how its random source answers when the id is generated
  claims,     \* the claims of the token, as JSON
  header,     \* how it is signed
  published,  \* keys in the transmitter's JWKS document
  parser,     \* the parser that reads it
  outcome     \* what the parser returned

vars == <<stage, draft, random, claims, header, published, parser, outcome>>

NoClaims == [iss |-> "none", jti |-> 0, aud |-> {}, subs |-> {}, events |-> <<>>]

NoDraft == [shape |-> "none"]

NoHeader == [key |-> "none", kid |-> "none", method |-> "none"]

\* The source gives bytes, fails once (and gives the next bytes), or fails.
Randomness == {"good", "falters", "fails"}

\* A parser takes its keys from a URL or from a set it was given.
NewParser == [url |-> FALSE, keySet |-> {}, issuer |-> "none", audience |-> <<>>]

NoOutcome == [as |-> "none", verified |-> FALSE, found |-> {}]

TypeOK ==
  /\ stage \in {"draft", "panicked", "invalid", "built", "sent", "parsed"}
  /\ draft \in Drafts \cup {NoDraft}
  /\ random \in Randomness
  /\ IsClaims(claims)
  /\ header \in [key: Keys, kid: Keys \cup {"none"}, method: {"RS256", "other"}] \cup {NoHeader}
  /\ published \subseteq Keys
  /\ parser \in [url: BOOLEAN, keySet: SUBSET Keys, issuer: Issuers \cup {"none"},
                 audience: AudienceLists \cup {<<>>}]
  /\ parser.url => parser.keySet = {}
  /\ outcome.as \in {"none", "single", "multi"}
  /\ \A token \in outcome.found : outcome.found = {token}

Init ==
  /\ random \in Randomness
  /\ \/ stage = "draft" /\ draft \in Drafts /\ claims = NoClaims
     \/ stage = "built" /\ draft = NoDraft /\ claims \in Foreign /\ random = "good"
  /\ header = NoHeader
  /\ published \in IF draft \in Varied THEN SUBSET Keys ELSE {Keys}
  /\ parser = NewParser
  /\ outcome = NoOutcome

-----------------------------------------------------------------------------
\* The program that sends.  A draft has the shape of its token, its issuer (the
\* builder's or its own), an id generator, an audience, the subject asked for,
\* and the events in the order of WithEvent.

UUIDLength == 36

\* (mutant) bytes rounded up
GeneratedEnough(gen, source) ==
  IF gen.encoding = "uuid"
  THEN IF source = "good" THEN {UUIDLength} ELSE {}
  ELSE CASE source = "good" \/ gen.length <= 1 -> {gen.prefix + gen.length}
         [] source = "falters" /\ gen.length > 1 -> {gen.prefix + UUIDLength}
         [] source = "fails" /\ gen.length > 1 -> {}

\* The lengths an id may have.  The random bytes are too few for some lengths:
\* slicing their encoding panics.  When they cannot be had, a UUID takes their
\* place, whatever length was asked for; a UUID panics without randomness.  No
\* source is asked for no bytes.
Generated(gen, source) ==
  LET bytes == IF gen.encoding = "hex" THEN gen.length \div 2 ELSE (gen.length * 3) \div 4
      encoded == IF gen.encoding = "hex" THEN 2 * bytes ELSE 4 * ((bytes + 2) \div 3)
      read == IF bytes = 0 THEN "good" ELSE source
  IN IF gen.encoding = "uuid"
     THEN IF source = "good" THEN {UUIDLength} ELSE {}
     ELSE CASE read = "good"    -> IF gen.length <= encoded THEN {gen.prefix + gen.length} ELSE {}
            [] read = "falters" -> {gen.prefix + UUIDLength}
            [] read = "fails"   -> {}

MadeEvent(d, i) == NewEvent(d.events[i].kind, d.events[i].payload)

\* WithEvent keeps one event, or in a token of several one of each type.
Held(d) ==
  LET all == 1..Len(d.events)
      kept == {i \in all : \A j \in all : j > i =>
                 d.shape = "multi" /\ MadeEvent(d, j).type # MadeEvent(d, i).type}
      types == {MadeEvent(d, i).type : i \in kept}
  IN [t \in types |-> MadeEvent(d, CHOOSE i \in kept : MadeEvent(d, i).type = t)]

\* The token in memory of the program: what Build gives it.
Tokens(d, source) ==
  {[iss |-> d.iss, jti |-> n, aud |-> d.aud, subs |-> subs, events |-> Held(d)] :
     n \in Generated(d.gen, source),
     subs \in {{s} : s \in UNION {MakeSubject(ask) : ask \in d.ask}}
              \cup IF d.ask = {} THEN {{}} ELSE {}}

MarshalJSON(token) ==
  [token EXCEPT !.events = [t \in DOMAIN token.events |-> token.events[t].payload]]

\* Nothing is validated unless the program asks for it.
Build ==
  /\ stage = "draft"
  /\ IF Tokens(draft, random) # {}
     THEN stage' = "built" /\ \E token \in Tokens(draft, random) : claims' = MarshalJSON(token)
     ELSE /\ stage' = IF Generated(draft.gen, random) = {} THEN "panicked" ELSE "invalid"
          /\ UNCHANGED claims
  /\ UNCHANGED <<draft, random, header, published, parser, outcome>>

\* NewSigner takes the method of the key's type; the program may name another
\* one, and a key id or none.  The usual way is the key's own id and method.
Sign ==
  /\ stage = "built"
  /\ stage' = "sent"
  /\ \E key \in Keys, kid \in Keys \cup {"none"}, method \in {"RS256", "other"} :
       /\ draft \in Varied \/ (kid = key /\ method = "RS256")
       /\ header' = [key |-> key, kid |-> kid, method |-> method]
  /\ UNCHANGED <<draft, random, claims, published, parser, outcome>>

\* The transmitter publishes keys and retires them.
Rotate ==
  /\ stage = "sent"
  /\ draft \in Varied
  /\ published' \in SUBSET Keys
  /\ UNCHANGED <<stage, draft, random, claims, header, parser, outcome>>

-----------------------------------------------------------------------------
\* The program that receives sets up its parser, option by option.  An option
\* whose argument does not parse does nothing, and says nothing.

SetUp(p) ==
  /\ stage = "sent"
  /\ parser' = p
  /\ UNCHANGED <<stage, draft, random, claims, header, published, outcome>>

WithJWKSURL == SetUp([parser EXCEPT !.url = TRUE, !.keySet = {}])

\* (mutant) the URL of an earlier option stays
WithKeysBesideURL ==
  \E keys \in {published} \cup {{key} : key \in Keys} : SetUp([parser EXCEPT !.keySet = keys])

\* WithJWKSJSON with a copy of the document, WithPublicKey with one key.
WithKeys ==
  \E keys \in {published} \cup {{key} : key \in Keys} :
    SetUp([parser EXCEPT !.keySet = keys, !.url = FALSE])

WithExpectations ==
  /\ draft \in Varied
  /\ \/ \E issuer \in Issuers : SetUp([parser EXCEPT !.issuer = issuer])
     \/ \E list \in AudienceLists : SetUp([parser EXCEPT !.audience = list])

\* The keys of a parser with a URL are those of the document now.
KeysAvailable == IF parser.url THEN published ELSE parser.keySet

\* (mutant) a token that is addressed to nobody is addressed to everybody
AdmitsUnaddressed ==
  /\ parser.issuer # "none" => claims.iss = parser.issuer
  /\ parser.audience # <<>> => claims.aud = {} \/ parser.audience[Len(parser.audience)] \in claims.aud

\* Each WithAudience of the jwt library replaces the one before: the last one
\* counts.
Admits ==
  /\ parser.issuer # "none" => claims.iss = parser.issuer
  /\ parser.audience # <<>> => parser.audience[Len(parser.audience)] \in claims.aud

\* The method is looked at before the key, the key is looked up by key id, and
\* the signature is checked with it.
Verified ==
  /\ header.method = "RS256"
  /\ header.kid \in KeysAvailable
  /\ header.key = header.kid

\* SecEvent.Validate and MultiSecEvent.Validate.
Valid(token) ==
  /\ token.iss # "none"
  /\ token.jti > 0
  /\ DOMAIN token.events # {}
  /\ \A t \in DOMAIN token.events : ValidEvent(token.events[t])
  /\ token.subs # {}
  /\ \A s \in token.subs : ValidSubject(s)

Decoded(json, as) ==
  LET subs == UNION {ParseSubject(s) : s \in json.subs}
      readable == /\ Cardinality(subs) = Cardinality(json.subs)
                  /\ \A t \in DOMAIN json.events : ParseEvent(t, json.events[t]) # {}
                  /\ as = "single" => Cardinality(DOMAIN json.events) = 1
      Read(t) == CHOOSE e \in ParseEvent(t, json.events[t]) : TRUE
  IN IF readable
     THEN {[iss |-> json.iss, jti |-> json.jti, aud |-> json.aud, subs |-> subs,
            events |-> [t \in DOMAIN json.events |-> Read(t)]]}
     ELSE {}

\* (mutant) the token is not validated once it is decoded
UnmarshalUnvalidated(json, as) == Decoded(json, as)

\* A token is validated as it is decoded; a single one has exactly one event.
UnmarshalJSON(json, as) == {token \in Decoded(json, as) : Valid(token)}

Parse(as, verified) ==
  /\ stage = "sent"
  /\ stage' = "parsed"
  /\ outcome' = [as |-> as, verified |-> verified,
                 found |-> IF verified => Verified /\ Admits THEN UnmarshalJSON(claims, as) ELSE {}]
  /\ UNCHANGED <<draft, random, claims, header, published, parser>>

\* The document of keys cannot be fetched.
FetchFails(as) ==
  /\ stage = "sent"
  /\ parser.url
  /\ stage' = "parsed"
  /\ outcome' = [as |-> as, verified |-> TRUE, found |-> {}]
  /\ UNCHANGED <<draft, random, claims, header, published, parser>>

Next ==
  \/ Build \/ Sign \/ Rotate
  \/ WithJWKSURL \/ WithKeys \/ WithExpectations
  \/ \E as \in {"single", "multi"} : Parse(as, TRUE) \/ Parse(as, FALSE) \/ FetchFails(as)

Spec == Init /\ [][Next]_vars

-----------------------------------------------------------------------------
\* What the library builds but does not read back: a credential change (its
\* constructor gives it the type of an assurance level change), a subject of a
\* format the parser does not know, an initiating entity outside the enumeration.
Excepted(d) ==
  \/ \E i \in 1..Len(d.events) :
       d.events[i].kind = "credential" \/ ~ReadableEntity(d.events[i].payload)
  \/ \E ask \in d.ask : \E s \in MakeSubject(ask) : ~Readable(s)

\* A token the library has built and validates is read back as it was built by
\* the parser for its shape, and by a verifying one that has its key, its issuer
\* and its audience; nothing of it is lost or changed on the way (MarshalJSON
\* and UnmarshalJSON of tokens, subjects and events, Sign, ParseSecEvent,
\* ParseMultiSecEvent), but for the exceptions above.
RoundTrip ==
  [][\A token \in IF draft = NoDraft \/ stage' # "parsed" THEN {}
                   ELSE Tokens(draft, random) :
       /\ Valid(token) /\ outcome'.as = draft.shape /\ ~Excepted(draft)
       /\ outcome'.verified => /\ ~parser.url
                               /\ header.method = "RS256" /\ header.kid = header.key
                               /\ header.key \in parser.keySet
                               /\ parser.issuer \in {token.iss, "none"}
                               /\ \A i \in 1..Len(parser.audience) : parser.audience[i] \in token.aud
       => outcome'.found = {token}]_outcome

\* Whatever is sent, a token that is handed to the program is complete and
\* valid, each event is of the type it was sent under, and a single token has
\* one (UnmarshalJSON, Validate, ParseEvent).
AcceptedIsValid ==
  \A token \in outcome.found :
    /\ token.iss # "none" /\ token.jti > 0 /\ token.subs # {}
    /\ \A s \in token.subs : ValidSubject(s)
    /\ \A t \in DOMAIN token.events : token.events[t].type = t /\ ValidEvent(token.events[t])
    /\ IF outcome.as = "single" THEN Cardinality(DOMAIN token.events) = 1
                                ELSE DOMAIN token.events # {}

\* A token that is accepted with verification is signed with a key the
\* transmitter publishes at that moment, or with one the parser was given last;
\* it comes from the issuer and is addressed to one of the audiences that are
\* expected (getKey, getParserOptions).
AcceptedIsVouched ==
  [][outcome'.verified /\ outcome'.found # {} =>
       /\ header.key \in IF parser.url THEN published ELSE parser.keySet
       /\ parser.issuer # "none" => claims.iss = parser.issuer
       /\ parser.audience # <<>> =>
            \E i \in 1..Len(parser.audience) : parser.audience[i] \in claims.aud]_outcome

\* An id has the length that was asked for after its prefix, or that of a UUID
\* when the random bytes it needs cannot be had.  The generator panics for odd
\* lengths in hexadecimal and for lengths of one more than a multiple of four in
\* base 64, unless a UUID takes their place; and when a UUID, asked for or taken,
\* finds no randomness (RandomGenerator.Generate, UUIDGenerator.Generate).
GeneratedIds ==
  draft # NoDraft =>
    LET gen == draft.gen
        uuid == gen.encoding = "uuid"
        short == \/ gen.encoding = "hex" /\ gen.length % 2 = 1
                 \/ gen.encoding = "base64" /\ gen.length % 4 = 1
        fallback == ~uuid /\ gen.length > 1 /\ random # "good"
    IN /\ stage = "panicked" <=> /\ stage # "draft"
                                 /\ \/ short /\ ~fallback
                                    \/ uuid /\ random # "good"
                                    \/ fallback /\ random = "fails"
       /\ stage \in {"built", "sent", "parsed"} =>
            claims.jti = IF uuid THEN UUIDLength
                         ELSE gen.prefix + IF fallback THEN UUIDLength ELSE gen.length
=============================================================================
