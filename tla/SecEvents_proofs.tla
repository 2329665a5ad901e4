--------------------------- MODULE SecEvents_proofs ---------------------------
(***************************************************************************)
(* Proofs about SecEvents, for every set of drafts and foreign tokens: the *)
(* types, what an accepted token is and who vouches for it, generated ids, *)
(* and that a valid token is read back as it was built.                    *)
(***************************************************************************)
EXTENDS SecEvents, FiniteSetTheorems, TLAPS

-----------------------------------------------------------------------------
\* Subjects: what a constructor made, reading leaves alone.

\* Trimming once is enough.
LEMMA TrimTrimmed ==
  ASSUME NEW text \in String
  PROVE  TrimSpace(text) \in String /\ TrimSpace(TrimSpace(text)) = TrimSpace(text)
BY DEF TrimSpace, String

\* A format of a simple subject is not that of a complex one.
LEMMA SimpleIsNotComplex == "complex" \notin SimpleFormats
BY DEF SimpleFormats, TypeOf

\* What is asked for at one path of a subject.
IsNode(ask) ==
  \/ ask = Node("complex", <<>>)
  \/ /\ ask.format \in SimpleFormats
     /\ ask.fields \in [FieldsOf(ask.format) -> String]

\* A node that was made is the only one that could be, and it is read back as it is.
LEMMA NodeRead ==
  ASSUME NEW ask, IsNode(ask), NEW node \in NewNode(ask)
  PROVE  /\ NewNode(ask) = {node}
         /\ node.format = ask.format
         /\ UnmarshalNode(node) = node
<1>1. CASE ask = Node("complex", <<>>)
  BY <1>1 DEF NewNode, IsComplex, Node, UnmarshalNode
<1>2. CASE ask.format \in SimpleFormats /\ ask.fields \in [FieldsOf(ask.format) -> String]
  <2> DEFINE texts == [f \in FieldsOf(ask.format) |-> TrimSpace(ask.fields[f])]
  <2>1. ~IsComplex(ask)
    BY <1>2, SimpleIsNotComplex DEF IsComplex
  <2>2. NewNode(ask) = {Node(ask.format, texts)} /\ node = Node(ask.format, texts)
    BY <2>1 DEF NewNode, NewSimple
  <2>3. node.format = ask.format /\ node.fields = texts
    BY <2>2 DEF Node
  <2>4. ~IsComplex(node)
    BY <2>1, <2>3 DEF IsComplex
  <2>5. \A f \in FieldsOf(ask.format) : f \in DOMAIN texts /\ TrimSpace(texts[f]) = texts[f]
    BY <1>2, TrimTrimmed
  <2>6. [f \in FieldsOf(ask.format) |-> IF f \in DOMAIN texts THEN TrimSpace(texts[f]) ELSE Blank] = texts
    BY <2>5
  <2>7. UnmarshalNode(node) = Node(ask.format, texts)
    BY <2>3, <2>4, <2>6 DEF UnmarshalNode, UnmarshalSimple
  <2> QED
    BY <2>2, <2>3, <2>7
<1> QED
  BY <1>1, <1>2 DEF IsNode

\* A subject that was made is the only one that could be; when the parser knows
\* its formats, it is read back as it is.
LEMMA SubjectRead ==
  ASSUME NEW ask, IsAsk(ask), NEW s \in MakeSubject(ask)
  PROVE  /\ MakeSubject(ask) = {s}
         /\ Readable(s) => ParseSubject(s) = {s}
<1> DEFINE Pick(path) == CHOOSE node \in NewNode(ask[path]) : TRUE
<1>1. MakeSubject(ask) = {[path \in DOMAIN ask |-> Pick(path)]}
  BY DEF MakeSubject
<1>2. \A path \in DOMAIN ask : NewNode(ask[path]) # {}
  BY DEF MakeSubject
<1>3. s = [path \in DOMAIN ask |-> Pick(path)]
  BY <1>1
<1>4. ASSUME NEW path \in DOMAIN ask
      PROVE  UnmarshalNode(s[path]) = s[path]
  <2>1. Pick(path) \in NewNode(ask[path])
    BY <1>2
  <2>2. IsNode(ask[path])
    BY DEF IsAsk, IsNode
  <2>3. UnmarshalNode(Pick(path)) = Pick(path)
    BY <2>1, <2>2, NodeRead
  <2> QED
    BY <2>3, <1>3
<1>5. DOMAIN s = DOMAIN ask
  BY <1>3
<1>6. [path \in DOMAIN s |-> UnmarshalNode(s[path])] = s
  BY <1>3, <1>4, <1>5
<1> QED
  BY <1>1, <1>3, <1>6 DEF ParseSubject

-----------------------------------------------------------------------------
\* Events: what a token holds, and what the parsers of its types make of it.

\* A payload that is a map of the members of its event.
IsPayload(kind, payload) ==
  payload \in [DOMAIN payload -> STRING] /\ DOMAIN payload \subseteq MembersOf(kind)

\* A valid event whose type is its kind is read back as it was sent.
LEMMA EventRead ==
  ASSUME NEW type \in Kinds, NEW payload, IsPayload(type, payload),
         ReadableEntity(payload), ValidEvent(Event(type, type, payload))
  PROVE  ParseEvent(type, payload) = {Event(type, type, payload)}
<1>1. DOMAIN payload \cap MembersOf(type) = DOMAIN payload
  BY DEF IsPayload
<1>2. [m \in DOMAIN payload \cap MembersOf(type) |-> payload[m]] = payload
  BY <1>1 DEF IsPayload
<1> QED
  BY <1>2 DEF ParseEvent

\* What is parsed under a type has that type, and there is one of it.
LEMMA ParsedHasType ==
  ASSUME NEW type, NEW payload, NEW e \in ParseEvent(type, payload)
  PROVE  e.type = type /\ ParseEvent(type, payload) = {e}
BY DEF ParseEvent, Event

\* Each event a token holds is one the program added, under its own type.
LEMMA HeldIsMade ==
  ASSUME NEW d, IsDraft(d), NEW t \in DOMAIN Held(d)
  PROVE  \E i \in 1..Len(d.events) :
           /\ Held(d)[t] = MadeEvent(d, i)
           /\ MadeEvent(d, i).type = t
           /\ \A j \in 1..Len(d.events) : j > i => d.shape = "multi"
<1> DEFINE all == 1..Len(d.events)
           kept == {i \in all : \A j \in all : j > i =>
                      d.shape = "multi" /\ MadeEvent(d, j).type # MadeEvent(d, i).type}
           types == {MadeEvent(d, i).type : i \in kept}
           Last(u) == CHOOSE i \in kept : MadeEvent(d, i).type = u
<1>1. Held(d) = [u \in types |-> MadeEvent(d, Last(u))]
  BY DEF Held
<1>2. \E i \in kept : MadeEvent(d, i).type = t
  BY <1>1
<1>3. Last(t) \in kept /\ MadeEvent(d, Last(t)).type = t
  BY <1>2
<1>4. Held(d)[t] = MadeEvent(d, Last(t))
  BY <1>1
<1> QED
  BY <1>3, <1>4

\* A token of one event holds one at most.
LEMMA SingleHoldsOne ==
  ASSUME NEW d, IsDraft(d), d.shape = "single", NEW t \in DOMAIN Held(d)
  PROVE  DOMAIN Held(d) = {t}
<1>1. ASSUME NEW u \in DOMAIN Held(d)
      PROVE  u = t
  <2>1. PICK i \in 1..Len(d.events) :
          MadeEvent(d, i).type = t /\ \A j \in 1..Len(d.events) : ~(j > i)
    BY HeldIsMade
  <2>2. PICK k \in 1..Len(d.events) :
          MadeEvent(d, k).type = u /\ \A j \in 1..Len(d.events) : ~(j > k)
    BY <1>1, HeldIsMade
  <2>3. i = k
    BY <2>1, <2>2 DEF IsDraft
  <2> QED
    BY <2>1, <2>2, <2>3
<1> QED
  BY <1>1

\* An event of a draft without exceptions, once it is found valid, is read back
\* as it was sent.
LEMMA HeldIsRead ==
  ASSUME NEW d, IsDraft(d), ~Excepted(d), NEW t \in DOMAIN Held(d), ValidEvent(Held(d)[t])
  PROVE  ParseEvent(t, Held(d)[t].payload) = {Held(d)[t]}
<1>1. PICK i \in 1..Len(d.events) : Held(d)[t] = MadeEvent(d, i) /\ MadeEvent(d, i).type = t
  BY HeldIsMade
<1> DEFINE kind == d.events[i].kind
           payload == d.events[i].payload
<1>2. kind \in Kinds /\ IsPayload(kind, payload)
  BY DEF IsDraft, IsPayload
<1>3. kind # "credential" /\ ReadableEntity(payload)
  BY DEF Excepted
<1>4. MadeEvent(d, i) = Event(kind, kind, payload)
  BY <1>3 DEF MadeEvent, NewEvent, TypeSetByNew
<1>5. t = kind /\ Held(d)[t].payload = payload
  BY <1>1, <1>4 DEF Event
<1>6. ValidEvent(Event(kind, kind, payload))
  BY <1>1, <1>4
<1>7. ParseEvent(kind, payload) = {Event(kind, kind, payload)}
  BY <1>2, <1>3, <1>6, EventRead
<1> QED
  BY <1>1, <1>4, <1>5, <1>7

-----------------------------------------------------------------------------
\* Tokens: what Build makes of a draft, and what decoding makes of JSON.

GenType == [encoding: {"uuid", "hex", "base64"}, length: Nat, prefix: Nat]

\* The lengths whose encoding is longer than the random bytes taken for it.
Short(gen) ==
  \/ gen.encoding = "hex" /\ gen.length % 2 = 1
  \/ gen.encoding = "base64" /\ gen.length % 4 = 1

\* The random bytes cannot be had: a UUID takes their place.
Fallback(gen, source) == gen.encoding # "uuid" /\ gen.length > 1 /\ source # "good"

\* The bytes that are taken are none for the lengths 0 and 1 alone, and encoded
\* they are long enough except for short lengths.
LEMMA BytesTaken ==
  ASSUME NEW gen \in GenType, gen.encoding # "uuid"
  PROVE  LET bytes == IF gen.encoding = "hex" THEN gen.length \div 2 ELSE (gen.length * 3) \div 4
             encoded == IF gen.encoding = "hex" THEN 2 * bytes ELSE 4 * ((bytes + 2) \div 3)
         IN /\ bytes = 0 <=> gen.length <= 1
            /\ gen.length <= encoded <=> ~Short(gen)
<1>0. gen.length \in Nat /\ gen.encoding \in {"hex", "base64"}
  BY DEF GenType
<1>1. CASE gen.encoding = "hex"
  BY <1>0, <1>1 DEF Short
<1>2. CASE gen.encoding = "base64"
  <2> DEFINE q == gen.length \div 4
             r == gen.length % 4
             bytes == (gen.length * 3) \div 4
             encoded == 4 * ((bytes + 2) \div 3)
  <2>1. q \in Nat /\ r \in 0..3 /\ gen.length = 4 * q + r
    <3>1. ASSUME NEW n \in Nat
          PROVE  n \div 4 \in Nat /\ n % 4 \in 0..3 /\ n = 4 * (n \div 4) + (n % 4)
      OBVIOUS
    <3> QED
      BY <1>0, <3>1
  <2>2. ASSUME NEW k \in Nat
        PROVE  /\ (12 * k) \div 4 = 3 * k
               /\ (12 * k + 3) \div 4 = 3 * k
               /\ (12 * k + 6) \div 4 = 3 * k + 1
               /\ (12 * k + 9) \div 4 = 3 * k + 2
    OBVIOUS
  <2>3. bytes = 3 * q + (IF r = 3 THEN 2 ELSE IF r = 2 THEN 1 ELSE 0)
    <3> HIDE DEF q, r
    <3>1. gen.length * 3 = 12 * q + 3 * r
      BY <2>1
    <3>2. r = 0 \/ r = 1 \/ r = 2 \/ r = 3
      BY <2>1
    <3> QED
      BY <2>1, <2>2, <3>1, <3>2
  <2>4. encoded = 4 * q + (IF r \in {2, 3} THEN 4 ELSE 0)
    <3> HIDE DEF bytes, q, r
    <3> QED
      BY <2>1, <2>3
  <2>5. (gen.length <= encoded <=> r # 1) /\ (bytes = 0 <=> gen.length <= 1)
    <3> HIDE DEF bytes, q, r, encoded
    <3> QED
      BY <2>1, <2>3, <2>4
  <2>6. Short(gen) <=> r = 1
    BY <1>2 DEF Short
  <2> QED
    BY <1>2, <2>5, <2>6
<1> QED
  BY <1>0, <1>1, <1>2

\* A generator that does not panic gives one length of id: its prefix and the
\* length asked for, or its prefix and a UUID, or a UUID.
LEMMA GeneratedIsOne ==
  ASSUME NEW gen \in GenType, NEW source \in Randomness
  PROVE  /\ Generated(gen, source) = {} <=>
              \/ Short(gen) /\ ~Fallback(gen, source)
              \/ gen.encoding = "uuid" /\ source # "good"
              \/ Fallback(gen, source) /\ source = "fails"
         /\ \A n \in Generated(gen, source) :
              /\ n \in Nat
              /\ Generated(gen, source) = {n}
              /\ n = IF gen.encoding = "uuid" THEN UUIDLength
                     ELSE gen.prefix + IF Fallback(gen, source) THEN UUIDLength ELSE gen.length
<1>0. /\ gen.encoding \in {"uuid", "hex", "base64"}
      /\ gen.length \in Nat /\ gen.prefix \in Nat
      /\ source \in {"good", "falters", "fails"}
  BY DEF GenType, Randomness
<1>1. CASE gen.encoding = "uuid"
  BY <1>1 DEF Generated, Short, Fallback, UUIDLength
<1>2. CASE gen.encoding # "uuid"
  <2> DEFINE bytes == IF gen.encoding = "hex" THEN gen.length \div 2 ELSE (gen.length * 3) \div 4
             encoded == IF gen.encoding = "hex" THEN 2 * bytes ELSE 4 * ((bytes + 2) \div 3)
             read == IF bytes = 0 THEN "good" ELSE source
  <2>1. (bytes = 0 <=> gen.length <= 1) /\ (gen.length <= encoded <=> ~Short(gen))
    BY <1>2, BytesTaken
  <2>2. Generated(gen, source) =
          CASE read = "good"    -> IF gen.length <= encoded THEN {gen.prefix + gen.length} ELSE {}
            [] read = "falters" -> {gen.prefix + UUIDLength}
            [] read = "fails"   -> {}
    BY <1>2 DEF Generated
  <2>3. Fallback(gen, source) <=> read # "good"
    <3> HIDE DEF bytes
    <3> QED
      BY <1>0, <1>2, <2>1 DEF Fallback
  <2>4. read \in {"good", "falters", "fails"} /\ (read # "good" => read = source)
    <3> HIDE DEF bytes
    <3> QED
      BY <1>0
  <2> HIDE DEF bytes, encoded, read
  <2>5. CASE read = "good"
    <3>1. Generated(gen, source) = IF Short(gen) THEN {} ELSE {gen.prefix + gen.length}
      BY <2>1, <2>2, <2>5
    <3>2. ~Fallback(gen, source)
      BY <2>3, <2>5
    <3> QED
      BY <1>0, <1>2, <3>1, <3>2
  <2>6. CASE read = "falters"
    <3>1. Generated(gen, source) = {gen.prefix + UUIDLength}
      BY <2>2, <2>6
    <3>2. Fallback(gen, source) /\ source = "falters"
      BY <2>3, <2>4, <2>6
    <3> QED
      BY <1>0, <1>2, <3>1, <3>2 DEF UUIDLength
  <2>7. CASE read = "fails"
    <3>1. Generated(gen, source) = {}
      BY <2>2, <2>7
    <3>2. Fallback(gen, source) /\ source = "fails"
      BY <2>3, <2>4, <2>7
    <3> QED
      BY <3>1, <3>2
  <2> QED
    BY <2>4, <2>5, <2>6, <2>7
<1> QED
  BY <1>1, <1>2

\* The subjects Build can give a token of this draft.
SubjectsOf(d) ==
  {{s} : s \in UNION {MakeSubject(ask) : ask \in d.ask}} \cup IF d.ask = {} THEN {{}} ELSE {}

\* A draft that asks for a subject gets the one its constructors make.
LEMMA SubjectsIsOne ==
  ASSUME NEW d, IsDraft(d), NEW subs \in SubjectsOf(d)
  PROVE  /\ SubjectsOf(d) = {subs}
         /\ \A s \in subs : /\ subs = {s}
                            /\ \E ask \in d.ask : IsAsk(ask) /\ s \in MakeSubject(ask)
<1>1. CASE d.ask = {}
  BY <1>1 DEF SubjectsOf
<1>2. CASE d.ask # {}
  <2>1. PICK ask \in d.ask : d.ask = {ask} /\ IsAsk(ask)
    BY <1>2 DEF IsDraft
  <2>2. UNION {MakeSubject(a) : a \in d.ask} = MakeSubject(ask)
    BY <2>1
  <2>3. SubjectsOf(d) = {{s} : s \in MakeSubject(ask)}
    BY <1>2, <2>2 DEF SubjectsOf
  <2>4. PICK s \in MakeSubject(ask) : subs = {s}
    BY <2>3
  <2>5. MakeSubject(ask) = {s}
    BY <2>1, <2>4, SubjectRead
  <2> QED
    BY <2>1, <2>3, <2>4, <2>5
<1> QED
  BY <1>1, <1>2

\* A draft stands for one token.
LEMMA TokenIsOne ==
  ASSUME NEW d, IsDraft(d), NEW source \in Randomness, NEW token \in Tokens(d, source)
  PROVE  /\ token = [iss |-> d.iss, jti |-> token.jti, aud |-> d.aud, subs |-> token.subs,
                     events |-> Held(d)]
         /\ token.jti \in Generated(d.gen, source)
         /\ token.subs \in SubjectsOf(d)
         /\ Tokens(d, source) = {token}
<1> DEFINE Token(n, subs) == [iss |-> d.iss, jti |-> n, aud |-> d.aud, subs |-> subs,
                              events |-> Held(d)]
<1>1. Tokens(d, source) =
        {Token(n, subs) : n \in Generated(d.gen, source), subs \in SubjectsOf(d)}
  BY DEF Tokens, SubjectsOf
<1>2. PICK n \in Generated(d.gen, source), subs \in SubjectsOf(d) : token = Token(n, subs)
  BY <1>1
<1>3. token.jti = n /\ token.subs = subs
  BY <1>2
<1>4. Generated(d.gen, source) = {n}
  BY <1>2, GeneratedIsOne DEF IsDraft, GenType
<1>5. SubjectsOf(d) = {subs}
  BY <1>2, SubjectsIsOne
<1>6. Tokens(d, source) = {Token(n, subs)}
  BY <1>1, <1>4, <1>5
<1> QED
  BY <1>2, <1>3, <1>6

\* The JSON of a token keeps its claims, and the payload of each event.
LEMMA MarshalKeeps ==
  ASSUME NEW d, IsDraft(d), NEW source \in Randomness, NEW token \in Tokens(d, source)
  PROVE  /\ IsClaims(MarshalJSON(token))
         /\ MarshalJSON(token) =
              [iss |-> token.iss, jti |-> token.jti, aud |-> token.aud, subs |-> token.subs,
               events |-> [t \in DOMAIN token.events |-> token.events[t].payload]]
<1> DEFINE payloads == [t \in DOMAIN token.events |-> token.events[t].payload]
           json == [iss |-> token.iss, jti |-> token.jti, aud |-> token.aud,
                    subs |-> token.subs, events |-> payloads]
<1>1. token = [iss |-> token.iss, jti |-> token.jti, aud |-> token.aud, subs |-> token.subs,
               events |-> token.events]
  BY TokenIsOne
<1>2. MarshalJSON(token) = [token EXCEPT !.events = payloads]
  BY DEF MarshalJSON
<1>3. MarshalJSON(token) = json
  <2> HIDE DEF payloads
  <2> QED
    BY <1>1, <1>2
<1>4. token.iss = d.iss /\ token.aud = d.aud
  BY TokenIsOne
<1>5. token.jti \in Nat
  BY TokenIsOne, GeneratedIsOne DEF IsDraft, GenType
<1>6. \A s \in token.subs : token.subs = {s}
  BY TokenIsOne, SubjectsIsOne
<1>7. IsClaims(json)
  <2> HIDE DEF payloads
  <2> QED
    BY <1>4, <1>5, <1>6 DEF IsClaims, IsDraft
<1> QED
  BY <1>3, <1>7

\* A decoded token has the claims of the JSON it was decoded from, an event of
\* its own type for each payload, and there is one of it.
LEMMA DecodedShape ==
  ASSUME NEW json, IsClaims(json), NEW as, NEW token \in Decoded(json, as)
  PROVE  /\ Decoded(json, as) = {token}
         /\ token.iss = json.iss
         /\ \A t \in DOMAIN token.events : token.events[t].type = t
         /\ as = "single" => Cardinality(DOMAIN token.events) = 1
<1> DEFINE subs == UNION {ParseSubject(s) : s \in json.subs}
           Pick(t) == CHOOSE e \in ParseEvent(t, json.events[t]) : TRUE
           events == [t \in DOMAIN json.events |-> Pick(t)]
<1>1. Decoded(json, as) = {[iss |-> json.iss, jti |-> json.jti, aud |-> json.aud, subs |-> subs,
                            events |-> events]}
  BY DEF Decoded
<1>2. /\ \A t \in DOMAIN json.events : ParseEvent(t, json.events[t]) # {}
      /\ as = "single" => Cardinality(DOMAIN json.events) = 1
  BY DEF Decoded
<1>3. token = [iss |-> json.iss, jti |-> json.jti, aud |-> json.aud, subs |-> subs,
             events |-> events]
  BY <1>1
<1>4. token.iss = json.iss /\ token.events = events
  <2> HIDE DEF subs, events
  <2> QED
    BY <1>3 DEF IsClaims
<1>5. \A t \in DOMAIN json.events : events[t].type = t
  BY <1>2, ParsedHasType
<1>6. DOMAIN token.events = DOMAIN json.events
  BY <1>4
<1> QED
  <2> HIDE DEF subs, events
  <2> QED
    BY <1>1, <1>2, <1>3, <1>4, <1>5, <1>6

\* The subjects of a token whose formats the parser knows are read back.
LEMMA SubjectsRead ==
  ASSUME NEW d, IsDraft(d), NEW subs \in SubjectsOf(d), subs # {}, \A s \in subs : Readable(s)
  PROVE  UNION {ParseSubject(s) : s \in subs} = subs
<1>1. PICK s \in subs : subs = {s} /\ \E ask \in d.ask : IsAsk(ask) /\ s \in MakeSubject(ask)
  BY SubjectsIsOne
<1>2. ParseSubject(s) = {s}
  BY <1>1, SubjectRead
<1> QED
  BY <1>1, <1>2

\* A valid token of a draft without exceptions is read back, and nothing else is,
\* by the parser for its shape.
LEMMA TokenRead ==
  ASSUME NEW d, IsDraft(d), ~Excepted(d), NEW source \in Randomness,
         NEW token \in Tokens(d, source), Valid(token)
  PROVE  UnmarshalJSON(MarshalJSON(token), d.shape) = {token}
<1> DEFINE json == MarshalJSON(token)
           payloads == [t \in DOMAIN token.events |-> token.events[t].payload]
           subs == UNION {ParseSubject(s) : s \in json.subs}
           Pick(t) == CHOOSE e \in ParseEvent(t, json.events[t]) : TRUE
           events == [t \in DOMAIN json.events |-> Pick(t)]
<1>1. /\ token = [iss |-> d.iss, jti |-> token.jti, aud |-> d.aud, subs |-> token.subs,
                  events |-> token.events]
      /\ token.events = Held(d)
  BY TokenIsOne
<1>2. json = [iss |-> token.iss, jti |-> token.jti, aud |-> token.aud, subs |-> token.subs,
              events |-> payloads]
  BY MarshalKeeps
<1>3. json.subs = token.subs /\ json.events = payloads
  BY <1>2
<1>4. subs = token.subs
  <2>1. token.subs \in SubjectsOf(d)
    BY TokenIsOne
  <2>2. token.subs # {} /\ \A s \in token.subs : Readable(s)
    BY <2>1, SubjectsIsOne DEF Valid, Excepted
  <2> QED
    BY <1>3, <2>1, <2>2, SubjectsRead
<1>5. \A t \in DOMAIN token.events : ParseEvent(t, payloads[t]) = {token.events[t]}
  BY <1>1, HeldIsRead DEF Valid
<1>6. DOMAIN json.events = DOMAIN token.events
  BY <1>3
<1>7. events = token.events
  <2>1. \A t \in DOMAIN token.events : Pick(t) = token.events[t]
    BY <1>3, <1>5
  <2>2. token.events = [t \in DOMAIN token.events |-> token.events[t]]
    BY <1>1 DEF Held
  <2> QED
    BY <1>6, <2>1, <2>2
<1>8. d.shape = "single" => Cardinality(DOMAIN json.events) = 1
  <2> SUFFICES ASSUME d.shape = "single"
               PROVE  Cardinality(DOMAIN token.events) = 1
    BY <1>6
  <2>1. PICK t \in DOMAIN token.events : TRUE
    BY DEF Valid
  <2>2. DOMAIN token.events = {t}
    BY <1>1, <2>1, SingleHoldsOne
  <2> QED
    BY <2>2, FS_Singleton
<1>9. [iss |-> json.iss, jti |-> json.jti, aud |-> json.aud, subs |-> subs,
        events |-> events] = token
  <2>1. token.iss = d.iss /\ token.aud = d.aud
    BY <1>1
  <2>2. json.iss = d.iss /\ json.jti = token.jti /\ json.aud = d.aud
    BY <1>2, <2>1
  <2> HIDE DEF subs, events, payloads, json
  <2> QED
    BY <1>1, <1>4, <1>7, <2>2
<1>10. Decoded(json, d.shape) = {token}
  <2>1. Decoded(json, d.shape) = {[iss |-> json.iss, jti |-> json.jti, aud |-> json.aud,
                                   subs |-> subs, events |-> events]}
    <3>1. /\ Cardinality(subs) = Cardinality(json.subs)
          /\ \A t \in DOMAIN json.events : ParseEvent(t, json.events[t]) # {}
          /\ d.shape = "single" => Cardinality(DOMAIN json.events) = 1
      BY <1>3, <1>4, <1>5, <1>6, <1>8
    <3> HIDE DEF json
    <3> QED
      BY <3>1 DEF Decoded
  <2> QED
    BY <1>9, <2>1
<1> QED
  BY <1>10 DEF UnmarshalJSON

-----------------------------------------------------------------------------
\* The invariant.

\* A token the program has built is the JSON of the token its draft stands for.
BuiltAsAsked ==
  draft # NoDraft /\ stage \in {"built", "sent", "parsed"} =>
    \E token \in Tokens(draft, random) : claims = MarshalJSON(token)

\* Before it is built, a token is a draft; building panics with the id alone.
UnbuiltIsDraft ==
  /\ stage \in {"draft", "panicked", "invalid"} => draft \in Drafts
  /\ stage = "panicked" => Generated(draft.gen, random) = {}
  /\ stage = "invalid" => Generated(draft.gen, random) # {}

IInv == TypeOK /\ BuiltAsAsked /\ UnbuiltIsDraft /\ AcceptedIsValid

\* A draft of the program is not the absence of one.
LEMMA DraftIsDraft ==
  ASSUME NEW d \in Drafts
  PROVE  IsDraft(d) /\ d # NoDraft
BY DraftsAssumption DEF IsDraft, NoDraft

\* The initial states satisfy the invariant.
LEMMA InitInvariant == Init => IInv
<1> SUFFICES ASSUME Init
             PROVE  IInv
  OBVIOUS
<1>1. IsClaims(claims)
  <2>1. IsClaims(NoClaims)
    BY DEF IsClaims, NoClaims
  <2> QED
    BY <2>1, ForeignAssumption DEF Init
<1>2. NewParser \in [url: BOOLEAN, keySet: SUBSET Keys, issuer: Issuers \cup {"none"},
                     audience: AudienceLists \cup {<<>>}]
  BY DEF NewParser
<1>3. TypeOK
  BY <1>1, <1>2 DEF Init, TypeOK, NewParser, NoOutcome
<1>4. BuiltAsAsked /\ UnbuiltIsDraft
  BY DraftIsDraft DEF Init, BuiltAsAsked, UnbuiltIsDraft
<1>5. AcceptedIsValid
  BY DEF Init, AcceptedIsValid, NoOutcome
<1> QED
  BY <1>3, <1>4, <1>5 DEF IInv

\* What a parser hands to the program is one valid token, or nothing.
LEMMA UnmarshalledIsValid ==
  ASSUME NEW json, IsClaims(json), NEW as \in {"single", "multi"},
         NEW token \in UnmarshalJSON(json, as)
  PROVE  /\ UnmarshalJSON(json, as) = {token}
         /\ Valid(token)
         /\ \A t \in DOMAIN token.events : token.events[t].type = t
         /\ as = "single" => Cardinality(DOMAIN token.events) = 1
<1>1. token \in Decoded(json, as) /\ Valid(token)
  BY DEF UnmarshalJSON
<1>2. Decoded(json, as) = {token}
  BY <1>1, DecodedShape
<1>3. UnmarshalJSON(json, as) = {token}
  BY <1>1, <1>2 DEF UnmarshalJSON
<1> QED
  BY <1>1, <1>3, DecodedShape

\* Setting up a parser changes nothing else.
LEMMA SetUpKeeps ==
  ASSUME NEW p \in [url: BOOLEAN, keySet: SUBSET Keys, issuer: Issuers \cup {"none"},
                    audience: AudienceLists \cup {<<>>}],
         p.url => p.keySet = {}, IInv, SetUp(p)
  PROVE  IInv'
<1>1. TypeOK'
  BY DEF IInv, TypeOK, SetUp
<1> QED
  BY <1>1 DEF IInv, SetUp, BuiltAsAsked, UnbuiltIsDraft, AcceptedIsValid

\* Every step keeps the invariant, action by action.
LEMMA NextInvariant == IInv /\ [Next]_vars => IInv'
<1> SUFFICES ASSUME IInv, [Next]_vars
             PROVE  IInv'
  OBVIOUS
<1> DEFINE Parsers == [url: BOOLEAN, keySet: SUBSET Keys, issuer: Issuers \cup {"none"},
                       audience: AudienceLists \cup {<<>>}]
<1>0. parser \in Parsers
  BY DEF IInv, TypeOK
<1>1. CASE Build
  <2>1. draft \in Drafts /\ IsDraft(draft) /\ draft # NoDraft /\ random \in Randomness
    BY <1>1, DraftIsDraft DEF Build, IInv, TypeOK, UnbuiltIsDraft
  <2>2. CASE Tokens(draft, random) # {}
    <3>1. PICK token \in Tokens(draft, random) : claims' = MarshalJSON(token)
      BY <1>1, <2>2 DEF Build
    <3>2. IsClaims(claims')
      BY <2>1, <3>1, MarshalKeeps
    <3>3. TypeOK'
      BY <1>1, <2>2, <3>2 DEF Build, IInv, TypeOK
    <3>4. BuiltAsAsked' /\ UnbuiltIsDraft'
      BY <1>1, <2>2, <3>1 DEF Build, BuiltAsAsked, UnbuiltIsDraft
    <3> QED
      BY <1>1, <3>3, <3>4 DEF Build, IInv, AcceptedIsValid
  <2>3. CASE Tokens(draft, random) = {}
    <3>1. TypeOK'
      BY <1>1, <2>3 DEF Build, IInv, TypeOK
    <3>2. BuiltAsAsked' /\ UnbuiltIsDraft'
      BY <1>1, <2>1, <2>3 DEF Build, BuiltAsAsked, UnbuiltIsDraft
    <3> QED
      BY <1>1, <3>1, <3>2 DEF Build, IInv, AcceptedIsValid
  <2> QED
    BY <2>2, <2>3
<1>2. CASE Sign
  <2>1. TypeOK'
    BY <1>2 DEF Sign, IInv, TypeOK
  <2> QED
    BY <1>2, <2>1 DEF Sign, IInv, BuiltAsAsked, UnbuiltIsDraft, AcceptedIsValid
<1>3. CASE Rotate
  <2>1. TypeOK'
    BY <1>3 DEF Rotate, IInv, TypeOK
  <2> QED
    BY <1>3, <2>1 DEF Rotate, IInv, BuiltAsAsked, UnbuiltIsDraft, AcceptedIsValid
<1>4. CASE WithJWKSURL
  <2> DEFINE p == [parser EXCEPT !.url = TRUE, !.keySet = {}]
  <2>1. p \in Parsers /\ p.keySet = {}
    BY <1>0
  <2> QED
    BY <1>4, <2>1, SetUpKeeps DEF WithJWKSURL
<1>5. CASE WithKeys
  <2>1. PICK keys \in {published} \cup {{key} : key \in Keys} :
          SetUp([parser EXCEPT !.keySet = keys, !.url = FALSE])
    BY <1>5 DEF WithKeys
  <2> DEFINE p == [parser EXCEPT !.keySet = keys, !.url = FALSE]
  <2>2. keys \in SUBSET Keys
    BY DEF IInv, TypeOK
  <2>3. p \in Parsers /\ p.url = FALSE
    BY <1>0, <2>2
  <2> QED
    BY <2>1, <2>3, SetUpKeeps
<1>6. CASE WithExpectations
  <2>1. CASE \E issuer \in Issuers : SetUp([parser EXCEPT !.issuer = issuer])
    <3>1. PICK issuer \in Issuers : SetUp([parser EXCEPT !.issuer = issuer])
      BY <2>1
    <3> DEFINE p == [parser EXCEPT !.issuer = issuer]
    <3>2. p \in Parsers /\ p.url = parser.url /\ p.keySet = parser.keySet
      BY <1>0
    <3> QED
      BY <3>1, <3>2, SetUpKeeps DEF IInv, TypeOK
  <2>2. CASE \E list \in AudienceLists : SetUp([parser EXCEPT !.audience = list])
    <3>1. PICK list \in AudienceLists : SetUp([parser EXCEPT !.audience = list])
      BY <2>2
    <3> DEFINE p == [parser EXCEPT !.audience = list]
    <3>2. p \in Parsers /\ p.url = parser.url /\ p.keySet = parser.keySet
      BY <1>0
    <3> QED
      BY <3>1, <3>2, SetUpKeeps DEF IInv, TypeOK
  <2> QED
    BY <1>6, <2>1, <2>2 DEF WithExpectations
<1>7. ASSUME NEW as \in {"single", "multi"}, NEW verified \in BOOLEAN, Parse(as, verified)
      PROVE  IInv'
  <2>1. /\ outcome'.as = as
        /\ \A token \in outcome'.found : token \in UnmarshalJSON(claims, as)
        /\ outcome'.found = {} \/ outcome'.found = UnmarshalJSON(claims, as)
    BY <1>7 DEF Parse
  <2>2. IsClaims(claims)
    BY DEF IInv, TypeOK
  <2>3. TypeOK'
    <3>1. \A token \in outcome'.found : outcome'.found = {token}
      BY <2>1, <2>2, UnmarshalledIsValid
    <3> QED
      BY <1>7, <2>1, <3>1 DEF Parse, IInv, TypeOK
  <2>4. AcceptedIsValid'
    BY <2>1, <2>2, UnmarshalledIsValid DEF AcceptedIsValid, Valid
  <2> QED
    BY <1>7, <2>3, <2>4 DEF Parse, IInv, BuiltAsAsked, UnbuiltIsDraft
<1>8. ASSUME NEW as \in {"single", "multi"}, FetchFails(as)
      PROVE  IInv'
  <2>1. TypeOK'
    BY <1>8 DEF FetchFails, IInv, TypeOK
  <2> QED
    BY <1>8, <2>1 DEF FetchFails, IInv, BuiltAsAsked, UnbuiltIsDraft, AcceptedIsValid
<1>9. CASE UNCHANGED vars
  <2>1. TypeOK'
    BY <1>9 DEF vars, IInv, TypeOK
  <2> QED
    BY <1>9, <2>1 DEF vars, IInv, BuiltAsAsked, UnbuiltIsDraft, AcceptedIsValid
<1> QED
  BY <1>1, <1>2, <1>3, <1>4, <1>5, <1>6, <1>7, <1>8, <1>9 DEF Next

\* The invariant holds in every state of a run.
THEOREM Invariance == Spec => []IInv
BY InitInvariant, NextInvariant, PTL DEF Spec

\* Each variable has its type, for all drafts and all foreign tokens; a parser
\* that takes its keys from a URL holds none of its own (the options of Parser).
THEOREM TypeCorrect == Spec => []TypeOK
<1>1. IInv => TypeOK
  BY DEF IInv
<1> QED
  BY <1>1, Invariance, PTL

\* Whatever is sent, a token that is handed to the program is complete and
\* valid, each event of the type it was sent under, one in a single token
\* (UnmarshalJSON, Validate, ParseEvent).
THEOREM Accepted == Spec => []AcceptedIsValid
<1>1. IInv => AcceptedIsValid
  BY DEF IInv
<1> QED
  BY <1>1, Invariance, PTL

\* An id has the length that was asked for after its prefix, or that of a UUID
\* when the random bytes it needs cannot be had; the generator panics in the cases
\* of GeneratedIds and no others, for every length, prefix and random source
\* (RandomGenerator.Generate, UUIDGenerator.Generate).
THEOREM Ids == Spec => []GeneratedIds
<1>1. IInv => GeneratedIds
  <2> DEFINE gen == draft.gen
             uuid == gen.encoding = "uuid"
             panics == \/ Short(gen) /\ ~Fallback(gen, random)
                       \/ uuid /\ random # "good"
                       \/ Fallback(gen, random) /\ random = "fails"
  <2> SUFFICES ASSUME IInv, draft # NoDraft
               PROVE  /\ stage = "panicked" <=> stage # "draft" /\ panics
                      /\ stage \in {"built", "sent", "parsed"} =>
                           claims.jti = IF uuid THEN UUIDLength
                                        ELSE gen.prefix + IF Fallback(gen, random) THEN UUIDLength
                                                                                   ELSE gen.length
    BY DEF GeneratedIds, Short, Fallback
  <2>1. IsDraft(draft) /\ random \in Randomness
    BY DraftIsDraft DEF IInv, TypeOK
  <2>2. gen \in GenType
    BY <2>1 DEF IsDraft, GenType
  <2>3. Generated(gen, random) = {} <=> panics
    BY <2>1, <2>2, GeneratedIsOne
  <2>4. CASE stage \in {"draft", "panicked", "invalid"}
    <3>1. stage = "panicked" => Generated(gen, random) = {}
      BY DEF IInv, UnbuiltIsDraft
    <3>2. stage = "invalid" => Generated(gen, random) # {}
      BY DEF IInv, UnbuiltIsDraft
    <3> HIDE DEF gen, panics, uuid
    <3> QED
      BY <2>3, <2>4, <3>1, <3>2
  <2>5. CASE stage \in {"built", "sent", "parsed"}
    <3>1. PICK token \in Tokens(draft, random) : claims = MarshalJSON(token)
      BY <2>5 DEF IInv, BuiltAsAsked
    <3>2. claims.jti = token.jti
      <4> DEFINE payloads == [t \in DOMAIN token.events |-> token.events[t].payload]
      <4>1. claims = [iss |-> token.iss, jti |-> token.jti, aud |-> token.aud,
                      subs |-> token.subs, events |-> payloads]
        BY <2>1, <3>1, MarshalKeeps
      <4> HIDE DEF payloads
      <4> QED
        BY <4>1
    <3>3. token.jti \in Generated(gen, random)
      BY <2>1, TokenIsOne
    <3>4. ~panics
      BY <2>3, <3>3
    <3>5. claims.jti = IF uuid THEN UUIDLength
                       ELSE gen.prefix + IF Fallback(gen, random) THEN UUIDLength ELSE gen.length
      BY <2>1, <2>2, <3>2, <3>3, GeneratedIsOne
    <3> HIDE DEF gen, panics, uuid
    <3> QED
      BY <2>5, <3>4, <3>5
  <2> QED
    BY <2>4, <2>5 DEF IInv, TypeOK
<1> QED
  BY <1>1, Invariance, PTL

\* What parsing leaves for the program.
LEMMA ParseDoes ==
  ASSUME NEW as, NEW verified \in BOOLEAN, Parse(as, verified)
  PROVE  /\ outcome'.verified = verified
         /\ outcome'.found = IF verified => Verified /\ Admits THEN UnmarshalJSON(claims, as) ELSE {}
BY DEF Parse

\* Without the keys nothing is found.
LEMMA FetchFailsDoes ==
  ASSUME NEW as, FetchFails(as)
  PROVE  outcome'.found = {}
BY DEF FetchFails

\* Who vouches for a token that is accepted with verification: a key published
\* then or given last, and the issuer and an audience that are expected (getKey,
\* getParserOptions).
THEOREM Vouched == Spec => AcceptedIsVouched
<1>1. IInv /\ [Next]_vars =>
        [outcome'.verified /\ outcome'.found # {} =>
           /\ header.key \in IF parser.url THEN published ELSE parser.keySet
           /\ parser.issuer # "none" => claims.iss = parser.issuer
           /\ parser.audience # <<>> =>
                \E i \in 1..Len(parser.audience) : parser.audience[i] \in claims.aud]_outcome
  <2> SUFFICES ASSUME IInv, [Next]_vars, outcome' # outcome,
                      outcome'.verified = TRUE, outcome'.found # {}
               PROVE  /\ header.key \in IF parser.url THEN published ELSE parser.keySet
                      /\ parser.issuer # "none" => claims.iss = parser.issuer
                      /\ parser.audience # <<>> =>
                           \E i \in 1..Len(parser.audience) : parser.audience[i] \in claims.aud
    OBVIOUS
  <2>1. PICK as \in {"single", "multi"}, verified \in BOOLEAN :
          Parse(as, verified) \/ FetchFails(as)
    BY DEF Next, Build, Sign, Rotate, WithJWKSURL, WithKeys, WithExpectations, SetUp, vars
  <2>2. Verified /\ Admits
    <3>1. Parse(as, verified)
      BY <2>1, FetchFailsDoes
    <3> QED
      BY <3>1, ParseDoes
  <2>3. parser.audience # <<>> => Len(parser.audience) \in 1..Len(parser.audience)
    BY ListsAssumption DEF IInv, TypeOK
  <2> QED
    BY <2>2, <2>3 DEF Verified, KeysAvailable, Admits
<1> QED
  BY <1>1, Invariance, PTL DEF Spec, AcceptedIsVouched

\* A valid token, but for the exceptions, is read back as it was built, by each
\* parser that is for it: for all drafts, subjects of any depth and any events
\* (MarshalJSON, UnmarshalJSON, Sign, ParseSecEvent, ParseMultiSecEvent).
THEOREM ReadBack == Spec => RoundTrip
<1> DEFINE For(token) ==
             /\ Valid(token) /\ outcome'.as = draft.shape /\ ~Excepted(draft)
             /\ outcome'.verified => /\ ~parser.url
                                     /\ header.method = "RS256" /\ header.kid = header.key
                                     /\ header.key \in parser.keySet
                                     /\ parser.issuer \in {token.iss, "none"}
                                     /\ \A i \in 1..Len(parser.audience) : parser.audience[i] \in token.aud
<1>1. IInv /\ [Next]_vars =>
        [\A token \in IF draft = NoDraft \/ stage' # "parsed" THEN {}
                     ELSE Tokens(draft, random) :
           For(token) => outcome'.found = {token}]_outcome
  <2> SUFFICES ASSUME IInv, [Next]_vars, outcome' # outcome, draft # NoDraft,
                      NEW token \in Tokens(draft, random), For(token)
               PROVE  outcome'.found = {token}
    OBVIOUS
  <2>1. PICK as \in {"single", "multi"}, verified \in BOOLEAN :
          Parse(as, verified) \/ FetchFails(as)
    BY DEF Next, Build, Sign, Rotate, WithJWKSURL, WithKeys, WithExpectations, SetUp, vars
  <2>2. Parse(as, verified)
    <3>1. outcome'.verified => ~parser.url
      OBVIOUS
    <3>2. FetchFails(as) => parser.url /\ outcome'.verified
      BY DEF FetchFails
    <3> QED
      BY <2>1, <3>1, <3>2
  <2>3. IsDraft(draft) /\ random \in Randomness
    BY DraftIsDraft DEF IInv, TypeOK
  <2>4. claims = MarshalJSON(token)
    <3>1. PICK built \in Tokens(draft, random) : claims = MarshalJSON(built)
      BY <2>2 DEF Parse, IInv, BuiltAsAsked
    <3> QED
      BY <2>3, <3>1, TokenIsOne
  <2>5. verified => Verified /\ Admits
    <3>1. claims.iss = token.iss /\ claims.aud = token.aud
      <4> DEFINE payloads == [t \in DOMAIN token.events |-> token.events[t].payload]
      <4>1. claims = [iss |-> token.iss, jti |-> token.jti, aud |-> token.aud,
                      subs |-> token.subs, events |-> payloads]
        BY <2>3, <2>4, MarshalKeeps
      <4> HIDE DEF payloads
      <4> QED
        BY <4>1
    <3>2. parser.audience # <<>> => Len(parser.audience) \in 1..Len(parser.audience)
      BY ListsAssumption DEF IInv, TypeOK
    <3>3. outcome'.verified = verified
      BY <2>2 DEF Parse
    <3> QED
      BY <3>1, <3>2, <3>3 DEF Verified, KeysAvailable, Admits
  <2>6. outcome'.found = UnmarshalJSON(claims, as) /\ as = draft.shape
    BY <2>2, <2>5 DEF Parse
  <2> QED
    BY <2>3, <2>4, <2>6, TokenRead
<1> QED
  BY <1>1, Invariance, PTL DEF Spec, RoundTrip
=============================================================================
