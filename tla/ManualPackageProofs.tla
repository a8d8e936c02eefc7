------------------------- MODULE ManualPackageProofs -------------------------
(***************************************************************************)
(* Theorems about ManualPackage, for any locales, files and start tags.    *)
(* A document is any sequence of tokens, so what the parser has written    *)
(* and collected after each of them is the invariant: the elements that    *)
(* are open in the body are those that are open in the document below it.  *)
(***************************************************************************)
EXTENDS ManualPackage, SequenceTheorems, TLAPS

Named == {<<AssetName[f], f>> : f \in DOMAIN AssetName}

Shape(p) ==
    /\ DOMAIN p = {"ancestors", "inBody", "visitedBody", "lang", "title", "body",
                   "assets", "hrefs", "ids"}
    /\ DOMAIN p.body = {"started", "open", "ids", "links", "assets", "flawed"}

Types(p) ==
    /\ Shape(p)
    /\ p.ancestors \in Seq([tag : STRING, page : Ids])
    /\ {p.inBody, p.visitedBody, p.lang, p.title} \subseteq BOOLEAN
    /\ {p.body.started, p.body.flawed} \subseteq BOOLEAN
    /\ p.body.open \in Seq(STRING)

\* The body is open, and in the document it is the second element from the root.
OpenBody(p) ==
    /\ Len(p.ancestors) >= 2
    /\ p.ancestors[2].tag = "body"
    /\ \A i \in 3 .. Len(p.ancestors) : p.ancestors[i].tag # "body"
    /\ Len(p.body.open) = Len(p.ancestors) - 1
    /\ \A i \in 1 .. Len(p.body.open) : p.body.open[i] = p.ancestors[i + 1].tag
    /\ p.body.started /\ ~p.body.flawed

\* The body has closed itself, which the parser does not see: it never ends.
EndlessBody(p) == \A i \in 1 .. Len(p.ancestors) : p.ancestors[i].tag # "body"

Nested(p) ==
    /\ p.inBody => p.visitedBody /\ (OpenBody(p) \/ EndlessBody(p))
    /\ ~p.inBody /\ p.visitedBody => IsWhole(p.body)
    /\ ~p.visitedBody => p.body.open = <<>> /\ ~p.body.started /\ ~p.body.flawed

\* What is collected beside the body is what is in it.
IsLink(l) == \E t \in StartTags : IsInternal(t.href) /\ l = <<t.href, InternalId(t.href)>>

Collected(p) ==
    /\ p.ids = p.body.ids
    /\ p.hrefs = {l[2] : l \in p.body.links}
    /\ \A l \in p.body.links : IsLink(l)
    /\ p.body.assets \subseteq p.assets /\ p.assets \subseteq Named

ParserOK(p) == Types(p) /\ Nested(p) /\ Collected(p)

-----------------------------------------------------------------------------
LEMMA NewParserOK == ParserOK(NewParser)
<1>1. Types(NewParser)
  <2>1. Shape(NewParser)
    BY DEF Shape, NewParser, NoBody
  <2>2. NewParser.ancestors = <<>> /\ NewParser.body = NoBody /\ NoBody.open = <<>>
    BY DEF NewParser, NoBody
  <2>3. /\ {NewParser.inBody, NewParser.visitedBody, NewParser.lang, NewParser.title} \subseteq BOOLEAN
        /\ {NoBody.started, NoBody.flawed} \subseteq BOOLEAN
    BY DEF NewParser, NoBody
  <2> QED
    BY <2>1, <2>2, <2>3 DEF Types
<1>2. Nested(NewParser)
  BY DEF Nested, NewParser, NoBody
<1>3. Collected(NewParser)
  BY DEF Collected, NewParser, NoBody
<1> QED
  BY <1>1, <1>2, <1>3 DEF ParserOK

\* The parser after the handler of a start tag: its ancestors and its body's elements
\* are not changed, and a second body or one within a body is refused.
SameElements(p, q) ==
    /\ Shape(q)
    /\ q.ancestors = p.ancestors /\ q.ids = p.ids
    /\ q.body.started = p.body.started /\ q.body.open = p.body.open
    /\ q.body.ids = p.body.ids /\ q.body.flawed = p.body.flawed

EntersBody(p, q, tag) ==
    /\ tag = "body" /\ ~p.inBody /\ ~p.visitedBody
    /\ q.inBody /\ q.visitedBody
    /\ Len(p.ancestors) = 1 /\ p.ancestors[1].tag # "body"

StaysWhere(p, q, tag) ==
    /\ q.inBody = p.inBody /\ q.visitedBody = p.visitedBody
    /\ q.inBody => tag \notin ForbiddenTags

HandlerFacts(q, tag) ==
    /\ SameElements(parser, q) /\ Collected(q)
    /\ {q.lang, q.title} \subseteq BOOLEAN
    /\ EntersBody(parser, q, tag) \/ StaysWhere(parser, q, tag)

LEMMA Unchanged ==
    ASSUME ParserOK(parser), NEW tag, parser.inBody => tag \notin ForbiddenTags
    PROVE  HandlerFacts(parser, tag)
  BY DEF ParserOK, HandlerFacts, SameElements, StaysWhere, Types

LEMMA HtmlTagFacts ==
    ASSUME ParserOK(parser), ~parser.inBody, NEW t, HtmlTag(t) # Refused
    PROVE  HandlerFacts(HtmlTag(t), t.tag)
<1> DEFINE q == [parser EXCEPT !.lang = TRUE]
<1>1. HtmlTag(t) = q
  BY DEF HtmlTag
<1>2. /\ Shape(q) /\ q.lang /\ q.title = parser.title /\ q.body = parser.body
      /\ q.ancestors = parser.ancestors /\ q.ids = parser.ids /\ q.hrefs = parser.hrefs
      /\ q.assets = parser.assets
      /\ q.inBody = parser.inBody /\ q.visitedBody = parser.visitedBody
  BY DEF ParserOK, Types, Shape
<1> HIDE DEF q
<1>3. SameElements(parser, q) /\ Collected(q)
  BY <1>2 DEF SameElements, Collected, ParserOK
<1>4. StaysWhere(parser, q, t.tag) /\ {q.lang, q.title} \subseteq BOOLEAN
  BY <1>2 DEF StaysWhere, ParserOK, Types
<1> QED
  BY <1>1, <1>3, <1>4 DEF HandlerFacts

\* A file that an element refers to.
LEMMA WithAssetFacts ==
    ASSUME ParserOK(parser), NEW src, WithAsset(src) # Refused, locale \in Locales,
           NEW tag, parser.inBody => tag \notin ForbiddenTags
    PROVE  HandlerFacts(WithAsset(src), tag)
<1> DEFINE a == Asset(src)
           q == [parser EXCEPT !.assets = With(@, {a}), !.body.assets = @ \cup {a}]
<1>1. WithAsset(src) = q /\ src \in DOMAIN AssetPath[locale] /\ ~Collides(parser.assets, a)
  BY DEF WithAsset
<1>2. a \in Named
  BY <1>1, AssetsAssumption DEF Named, Asset
<1>3. parser.assets \subseteq Named
  BY DEF ParserOK, Collected
<1> HIDE DEF a
<1>4. With(parser.assets, {a}) = parser.assets \cup {a}
  <2>1. ASSUME NEW b \in parser.assets, a[1] = b[1] PROVE a = b
    <3>1. a[2] = b[2]
      BY <1>1, <2>1 DEF Collides
    <3> QED
      BY <1>2, <1>3, <2>1, <3>1 DEF Named
  <2> QED
    BY <2>1 DEF With
<1>5. /\ Shape(q) /\ q.lang = parser.lang /\ q.title = parser.title
      /\ q.ancestors = parser.ancestors /\ q.ids = parser.ids /\ q.hrefs = parser.hrefs
      /\ q.assets = parser.assets \cup {a}
      /\ q.inBody = parser.inBody /\ q.visitedBody = parser.visitedBody
  BY <1>4 DEF ParserOK, Types, Shape
<1>6. /\ q.body.started = parser.body.started /\ q.body.open = parser.body.open
      /\ q.body.ids = parser.body.ids /\ q.body.flawed = parser.body.flawed
      /\ q.body.links = parser.body.links
      /\ q.body.assets = parser.body.assets \cup {a}
  BY DEF ParserOK, Types, Shape
<1> HIDE DEF q
<1>7. SameElements(parser, q) /\ Collected(q)
  BY <1>2, <1>5, <1>6 DEF SameElements, Collected, ParserOK
<1>8. StaysWhere(parser, q, tag) /\ {q.lang, q.title} \subseteq BOOLEAN
  BY <1>5 DEF StaysWhere, ParserOK, Types
<1> QED
  BY <1>1, <1>7, <1>8 DEF HandlerFacts

LEMMA BodyTagFacts ==
    ASSUME ParserOK(parser), ~parser.inBody, NEW t, t.tag = "body", BodyTag(t) # Refused
    PROVE  HandlerFacts(BodyTag(t), t.tag)
<1> DEFINE q == [parser EXCEPT !.visitedBody = TRUE, !.inBody = TRUE]
<1>1. BodyTag(t) = q /\ Context = <<"html">> /\ ~parser.visitedBody
  BY DEF BodyTag
<1>2. /\ Shape(q) /\ q.lang = parser.lang /\ q.title = parser.title /\ q.body = parser.body
      /\ q.ancestors = parser.ancestors /\ q.ids = parser.ids /\ q.hrefs = parser.hrefs
      /\ q.assets = parser.assets
      /\ q.inBody = TRUE /\ q.visitedBody = TRUE
  BY DEF ParserOK, Types, Shape
<1> HIDE DEF q
<1>3. SameElements(parser, q) /\ Collected(q)
  BY <1>2 DEF SameElements, Collected, ParserOK
<1>4. Len(parser.ancestors) = 1 /\ parser.ancestors[1].tag = "html"
  <2>1. parser.ancestors \in Seq([tag : STRING, page : Ids])
    BY DEF ParserOK, Types
  <2>2. DOMAIN Context = 1 .. Len(parser.ancestors)
    BY <2>1 DEF Context
  <2>3. DOMAIN Context = 1 .. 1 /\ Context[1] = "html"
    BY <1>1
  <2>4. Len(parser.ancestors) = 1
    BY <2>1, <2>2, <2>3
  <2> QED
    BY <2>1, <2>3, <2>4 DEF Context
<1>5. EntersBody(parser, q, t.tag) /\ {q.lang, q.title} \subseteq BOOLEAN
  BY <1>1, <1>2, <1>4 DEF EntersBody, ParserOK, Types
<1> QED
  BY <1>1, <1>3, <1>5 DEF HandlerFacts

LEMMA ATagFacts ==
    ASSUME ParserOK(parser), NEW t \in StartTags, t.tag = "a", ATag(t) # Refused
    PROVE  HandlerFacts(ATag(t), t.tag)
<1>1. CASE ~IsInternal(t.href)
  BY <1>1, Unchanged DEF ATag, ForbiddenTags
<1>2. CASE IsInternal(t.href)
  <2> DEFINE l == <<t.href, InternalId(t.href)>>
             q == [parser EXCEPT !.hrefs = @ \cup {InternalId(t.href)},
                                 !.body.links = @ \cup {l}]
  <2>1. ATag(t) = q
    BY <1>2 DEF ATag
  <2>2. IsLink(l) /\ l[2] = InternalId(t.href)
    BY <1>2 DEF IsLink
  <2>3. /\ Shape(q) /\ q.lang = parser.lang /\ q.title = parser.title
        /\ q.ancestors = parser.ancestors /\ q.ids = parser.ids
        /\ q.hrefs = parser.hrefs \cup {InternalId(t.href)}
        /\ q.assets = parser.assets
        /\ q.inBody = parser.inBody /\ q.visitedBody = parser.visitedBody
    BY DEF ParserOK, Types, Shape
  <2>4. /\ q.body.started = parser.body.started /\ q.body.open = parser.body.open
        /\ q.body.ids = parser.body.ids /\ q.body.flawed = parser.body.flawed
        /\ q.body.links = parser.body.links \cup {l}
        /\ q.body.assets = parser.body.assets
    BY DEF ParserOK, Types, Shape
  <2> HIDE DEF q, l
  <2>5. SameElements(parser, q)
    BY <2>3, <2>4 DEF SameElements
  <2>6. q.hrefs = {k[2] : k \in q.body.links}
    BY <2>2, <2>3, <2>4 DEF Collected, ParserOK
  <2>7. Collected(q)
    BY <2>2, <2>3, <2>4, <2>6 DEF Collected, ParserOK
  <2>8. StaysWhere(parser, q, t.tag) /\ {q.lang, q.title} \subseteq BOOLEAN
    BY <2>3 DEF StaysWhere, ParserOK, Types, ForbiddenTags
  <2> QED
    BY <2>1, <2>5, <2>7, <2>8 DEF HandlerFacts
<1> QED
  BY <1>1, <1>2

LEMMA HandlerOfFacts ==
    ASSUME ParserOK(parser), locale \in Locales, NEW t \in StartTags, HandlerOf(t) # Refused
    PROVE  HandlerFacts(HandlerOf(t), t.tag)
<1>1. CASE ~parser.inBody
  <2>1. CASE t.tag = "html"
    BY <1>1, <2>1, HtmlTagFacts DEF HandlerOf
  <2>2. CASE t.tag = "link"
    BY <1>1, <2>2, WithAssetFacts, Unchanged DEF HandlerOf, LinkTag
  <2>3. CASE t.tag = "body"
    BY <1>1, <2>3, BodyTagFacts DEF HandlerOf
  <2>4. CASE t.tag \notin {"html", "link", "body"}
    BY <1>1, <2>4, Unchanged DEF HandlerOf
  <2> QED
    BY <2>1, <2>2, <2>3, <2>4
<1>2. CASE parser.inBody
  <2>0. t.tag \notin ForbiddenTags
    <3> SUFFICES ASSUME t.tag \in ForbiddenTags PROVE FALSE
      OBVIOUS
    <3> QED
      BY <1>2 DEF HandlerOf, ForbiddenTags
  <2>1. CASE t.tag = "img"
    BY <1>2, <2>0, <2>1, WithAssetFacts, Unchanged DEF HandlerOf, ImgTag
  <2>2. CASE t.tag = "a"
    BY <1>2, <2>0, <2>2, ATagFacts DEF HandlerOf
  <2>3. CASE t.tag = "div"
    BY <1>2, <2>0, <2>3, Unchanged DEF HandlerOf, DivTag
  <2>4. CASE t.tag \notin {"img", "a", "div"}
    BY <1>2, <2>0, <2>4, Unchanged DEF HandlerOf
  <2> QED
    BY <2>1, <2>2, <2>3, <2>4
<1> QED
  BY <1>1, <1>2

-----------------------------------------------------------------------------
(* What a token leaves.                                                    *)

LEMMA AppendFacts ==
    ASSUME NEW S, NEW s \in Seq(S), NEW e \in S
    PROVE  /\ Append(s, e) \in Seq(S) /\ Len(Append(s, e)) = Len(s) + 1
           /\ \A i \in 1 .. Len(s) : Append(s, e)[i] = s[i]
           /\ Append(s, e)[Len(s) + 1] = e
  OBVIOUS

LEMMA AncestorFacts ==
    ASSUME NEW s \in Seq([tag : STRING, page : Ids]), NEW e \in [tag : STRING, page : Ids]
    PROVE  /\ Append(s, e) \in Seq([tag : STRING, page : Ids])
           /\ Len(s) \in Nat /\ Len(Append(s, e)) = Len(s) + 1
           /\ \A i \in 1 .. Len(s) : Append(s, e)[i] = s[i]
           /\ Append(s, e)[Len(s) + 1] = e
<1> DEFINE S == [tag : STRING, page : Ids]
<1>1. s \in Seq(S) /\ e \in S
  OBVIOUS
<1> HIDE DEF S
<1>2. /\ Append(s, e) \in Seq(S)
      /\ Len(s) \in Nat /\ Len(Append(s, e)) = Len(s) + 1
      /\ \A i \in 1 .. Len(s) : Append(s, e)[i] = s[i]
      /\ Append(s, e)[Len(s) + 1] = e
  BY <1>1, AppendFacts
<1> QED
  BY <1>2 DEF S

\* The start of an element in the body is written.
WithStartFacts(b, c, tag, id, isOpen) ==
    /\ DOMAIN c = DOMAIN b
    /\ c.started = TRUE
    /\ c.open = IF isOpen THEN Append(b.open, tag) ELSE b.open
    /\ c.ids = IF id = NoId THEN b.ids ELSE b.ids \cup {id}
    /\ c.links = b.links /\ c.assets = b.assets
    /\ c.flawed = \/ b.flawed
                  \/ id # NoId /\ id \in b.ids
                  \/ ~(tag = "body" /\ ~b.started) /\ (b.open = <<>> \/ tag \in ForbiddenTags)

LEMMA WithStartIs ==
    ASSUME NEW b, DOMAIN b = {"started", "open", "ids", "links", "assets", "flawed"},
           NEW tag, NEW id, NEW isOpen
    PROVE  WithStartFacts(b, WithStart(b, tag, id, isOpen), tag, id, isOpen)
  BY DEF WithStart, WithStartFacts

LEMMA HandledKeeps ==
    ASSUME ParserOK(parser), NEW t \in StartTags, NEW h, HandlerFacts(h, t.tag),
           Handled(h, t, IdOf(t)) # Refused
    PROVE  ParserOK(Handled(h, t, IdOf(t)))
<1> DEFINE id == IdOf(t)
           kept == KeptId(h, t, id)
           isOpen == ~(t.tag \in VoidTags) /\ ~t.closed
           page == IF parser.inBody /\ IsPage(t) THEN t.id ELSE NoId
           entry == [tag |-> t.tag, page |-> page]
           b == IF h.inBody THEN WithStart(h.body, t.tag, kept, isOpen) ELSE h.body
           anc == IF isOpen THEN Append(h.ancestors, entry) ELSE h.ancestors
           q == [h EXCEPT !.ids = SavedIds(h, kept), !.body = b, !.ancestors = anc]
<1>1. Handled(h, t, id) = q /\ ~(h.inBody /\ kept # NoId /\ kept \in h.ids)
  BY DEF Handled
<1>2. /\ Shape(h) /\ h.ancestors = parser.ancestors /\ h.ids = parser.ids
      /\ h.body.started = parser.body.started /\ h.body.open = parser.body.open
      /\ h.body.ids = parser.body.ids /\ h.body.flawed = parser.body.flawed
      /\ h.ids = h.body.ids
  BY DEF HandlerFacts, SameElements, Collected
<1>3. /\ parser.ancestors \in Seq([tag : STRING, page : Ids])
      /\ parser.body.open \in Seq(STRING)
      /\ {parser.body.started, parser.body.flawed} \subseteq BOOLEAN
      /\ {h.lang, h.title, h.inBody, h.visitedBody} \subseteq BOOLEAN
  BY DEF ParserOK, Types, HandlerFacts, EntersBody, StaysWhere
<1>4. t.tag \in STRING /\ page \in Ids /\ t.closed \in BOOLEAN
  <2>1. StartTagType(t)
    BY TagsAssumption
  <2>2. NoId \in Ids
    BY DEF NoId, Ids
  <2> QED
    BY <2>1, <2>2 DEF StartTagType, Ids
<1>5. isOpen \in BOOLEAN /\ entry \in [tag : STRING, page : Ids] /\ entry.tag = t.tag
  BY <1>4
<1>6. /\ h.inBody => WithStartFacts(h.body, b, t.tag, kept, isOpen)
      /\ ~h.inBody => b = h.body
      /\ DOMAIN b = {"started", "open", "ids", "links", "assets", "flawed"}
  <2>1. h.inBody => WithStartFacts(h.body, b, t.tag, kept, isOpen)
    BY <1>2, WithStartIs DEF Shape
  <2>2. ~h.inBody => b = h.body
    OBVIOUS
  <2> HIDE DEF b
  <2> QED
    BY <2>1, <2>2, <1>2 DEF Shape, WithStartFacts
<1> HIDE DEF kept, id, page, isOpen, entry, b
<1>7. /\ isOpen => anc = Append(parser.ancestors, entry)
      /\ ~isOpen => anc = parser.ancestors
  BY <1>2
<1> HIDE DEF anc
<1>8. /\ Shape(q)
      /\ q.ids = SavedIds(h, kept) /\ q.body = b /\ q.ancestors = anc
      /\ q.inBody = h.inBody /\ q.visitedBody = h.visitedBody
      /\ q.lang = h.lang /\ q.title = h.title /\ q.assets = h.assets /\ q.hrefs = h.hrefs
  BY <1>2, <1>6 DEF Shape
<1> HIDE DEF q
<1>9. anc \in Seq([tag : STRING, page : Ids])
  <2>1. Append(parser.ancestors, entry) \in Seq([tag : STRING, page : Ids])
    BY <1>3, <1>5, AncestorFacts
  <2> QED
    BY <2>1, <1>3, <1>5, <1>7
<1>10. Types(q)
  <2>1. CASE h.inBody
    <3>1. b.open = IF isOpen THEN Append(parser.body.open, t.tag) ELSE parser.body.open
      BY <2>1, <1>2, <1>6 DEF WithStartFacts
    <3>2. b.open \in Seq(STRING)
      <4>1. Append(parser.body.open, t.tag) \in Seq(STRING)
        BY <1>3, <1>4, AppendFacts
      <4> QED
        BY <3>1, <4>1, <1>3, <1>5
    <3>3. {b.started, b.flawed} \subseteq BOOLEAN
      BY <2>1, <1>2, <1>3, <1>6 DEF WithStartFacts
    <3> QED
      BY <3>2, <3>3, <1>3, <1>8, <1>9 DEF Types
  <2>2. CASE ~h.inBody
    BY <2>2, <1>2, <1>3, <1>6, <1>8, <1>9 DEF Types
  <2> QED
    BY <2>1, <2>2
<1>11. Collected(q)
  <2>1. b.links = h.body.links /\ b.assets = h.body.assets
    BY <1>6 DEF WithStartFacts
  <2>2. q.ids = q.body.ids
    BY <1>2, <1>3, <1>6, <1>8 DEF WithStartFacts, SavedIds
  <2> QED
    BY <2>1, <2>2, <1>8 DEF Collected, HandlerFacts
<1>12. Nested(q)
  <2>1. CASE ~h.inBody
    <3>1. StaysWhere(parser, h, t.tag) /\ b = h.body
      BY <2>1 DEF HandlerFacts, EntersBody, b
    <3> QED
      BY <2>1, <3>1, <1>2, <1>8 DEF Nested, ParserOK, StaysWhere, IsWhole
  <2>2. CASE h.inBody /\ EntersBody(parser, h, t.tag)
    <3>1. ~b.flawed /\ b.started /\ b.open = IF isOpen THEN <<t.tag>> ELSE <<>>
      <4>1. /\ t.tag = "body" /\ h.body.open = <<>> /\ ~h.body.started /\ ~h.body.flawed
            /\ ~(kept # NoId /\ kept \in h.body.ids)
        BY <2>2, <1>1, <1>2 DEF EntersBody, ParserOK, Nested
      <4>2. Append(h.body.open, t.tag) = <<t.tag>>
        BY <4>1
      <4>3. b.flawed = FALSE /\ b.started = TRUE
        BY <4>1, <2>2, <1>6 DEF WithStartFacts
      <4> QED
        BY <4>1, <4>2, <4>3, <2>2, <1>6 DEF WithStartFacts
    <3>2. CASE isOpen
      <4>1. /\ Len(anc) = 2 /\ anc[2].tag = "body"
            /\ Len(b.open) = 1 /\ b.open[1] = anc[2].tag
        <5>1. Len(parser.ancestors) = 1 /\ anc = Append(parser.ancestors, entry) /\ t.tag = "body"
          BY <3>2, <2>2, <1>7 DEF EntersBody
        <5>2. Len(anc) = Len(parser.ancestors) + 1 /\ anc[Len(parser.ancestors) + 1] = entry
          BY <5>1, <1>3, <1>5, AncestorFacts
        <5> QED
          BY <5>1, <5>2, <3>1, <3>2, <1>5
      <4>2. /\ \A i \in 3 .. Len(anc) : anc[i].tag # "body"
            /\ \A i \in 1 .. Len(b.open) : b.open[i] = anc[i + 1].tag
            /\ Len(anc) >= 2 /\ Len(b.open) = Len(anc) - 1
        BY <4>1
      <4>3. OpenBody(q)
        BY <3>1, <4>1, <4>2, <1>8 DEF OpenBody
      <4> QED
        BY <4>3, <2>2, <1>8 DEF Nested, EntersBody
    <3>3. CASE ~isOpen
      <4>1. EndlessBody(q)
        BY <3>3, <2>2, <1>7, <1>8 DEF EndlessBody, EntersBody
      <4> QED
        BY <4>1, <2>2, <1>8 DEF Nested, EntersBody
    <3> QED
      BY <3>2, <3>3, <1>5
  <2>3. CASE h.inBody /\ StaysWhere(parser, h, t.tag)
    <3>1. parser.inBody /\ parser.visitedBody /\ t.tag \notin ForbiddenTags /\ t.tag # "body"
      BY <2>3 DEF StaysWhere, ForbiddenTags, ParserOK, Nested
    <3>2. CASE OpenBody(parser)
      <4>1. parser.body.open # <<>>
        BY <3>2, <1>3 DEF OpenBody
      <4>2. ~b.flawed /\ b.started
        BY <2>3, <3>1, <3>2, <4>1, <1>1, <1>2, <1>6 DEF WithStartFacts, OpenBody
      <4>3. b.open = IF isOpen THEN Append(parser.body.open, t.tag) ELSE parser.body.open
        BY <2>3, <1>2, <1>6 DEF WithStartFacts
      <4>4. CASE isOpen
        <5>1. /\ Len(anc) = Len(parser.ancestors) + 1
              /\ Len(b.open) = Len(parser.body.open) + 1
              /\ \A i \in 1 .. Len(parser.ancestors) : anc[i] = parser.ancestors[i]
              /\ anc[Len(anc)].tag = t.tag
              /\ \A i \in 1 .. Len(parser.body.open) : b.open[i] = parser.body.open[i]
              /\ b.open[Len(b.open)] = t.tag
          <6>1. anc = Append(parser.ancestors, entry) /\ b.open = Append(parser.body.open, t.tag)
            BY <4>3, <4>4, <1>7
          <6> QED
            BY <6>1, <1>3, <1>4, <1>5, AppendFacts, AncestorFacts
        <5>2. Len(parser.ancestors) \in Nat /\ Len(parser.body.open) = Len(parser.ancestors) - 1
              /\ Len(parser.ancestors) >= 2
          BY <3>2, <1>3 DEF OpenBody
        <5>3. anc[2].tag = "body" /\ \A i \in 3 .. Len(anc) : anc[i].tag # "body"
          <6>1. anc[2].tag = "body"
            BY <5>1, <5>2, <3>2 DEF OpenBody
          <6>2. ASSUME NEW i \in 3 .. Len(anc) PROVE anc[i].tag # "body"
            <7>1. CASE i = Len(anc)
              BY <7>1, <5>1, <3>1
            <7>2. CASE i \in 3 .. Len(parser.ancestors)
              BY <7>2, <5>1, <5>2, <3>2 DEF OpenBody
            <7> QED
              BY <7>1, <7>2, <5>1, <5>2
          <6> QED
            BY <6>1, <6>2
        <5>4. ASSUME NEW i \in 1 .. Len(b.open) PROVE b.open[i] = anc[i + 1].tag
          <6>1. CASE i = Len(b.open)
            BY <6>1, <5>1, <5>2
          <6>2. CASE i \in 1 .. Len(parser.body.open)
            <7>1. i + 1 \in 1 .. Len(parser.ancestors)
              BY <6>2, <5>2
            <7> QED
              BY <7>1, <6>2, <5>1, <5>2, <3>2 DEF OpenBody
          <6>3. i = Len(b.open) \/ i \in 1 .. Len(parser.body.open)
            <7> DEFINE m == Len(b.open)
                       n == Len(parser.body.open)
                       k == Len(parser.ancestors)
            <7>1. m = n + 1 /\ n = k - 1 /\ k \in Nat /\ i \in 1 .. m
              BY <5>1, <5>2
            <7> HIDE DEF k, m, n
            <7>2. i = m \/ i \in 1 .. n
              BY <7>1
            <7> QED
              BY <7>2 DEF m, n
          <6> QED
            BY <6>1, <6>2, <6>3
        <5>5. OpenBody(q)
          BY <5>1, <5>2, <5>3, <5>4, <4>2, <1>8 DEF OpenBody
        <5> QED
          BY <5>5, <2>3, <3>1, <1>8 DEF Nested, StaysWhere
      <4>5. CASE ~isOpen
        <5>1. OpenBody(q)
          BY <4>2, <4>3, <4>5, <3>2, <1>7, <1>8 DEF OpenBody
        <5> QED
          BY <5>1, <2>3, <3>1, <1>8 DEF Nested, StaysWhere
      <4> QED
        BY <4>4, <4>5, <1>5
    <3>3. CASE EndlessBody(parser)
      <4>1. ASSUME isOpen PROVE \A i \in 1 .. Len(anc) : anc[i].tag # "body"
        <5>1. /\ Len(parser.ancestors) \in Nat /\ Len(anc) = Len(parser.ancestors) + 1
              /\ \A i \in 1 .. Len(parser.ancestors) : anc[i] = parser.ancestors[i]
              /\ anc[Len(anc)].tag # "body"
          <6>1. Len(parser.ancestors) \in Nat /\ anc = Append(parser.ancestors, entry)
            BY <4>1, <1>3, <1>7
          <6>2. anc[Len(anc)] = entry
            BY <6>1, <1>3, <1>5, AncestorFacts
          <6> QED
            BY <6>1, <6>2, <3>1, <1>3, <1>5, AncestorFacts
        <5>2. ASSUME NEW i \in 1 .. Len(anc) PROVE anc[i].tag # "body"
          BY <5>1, <3>3 DEF EndlessBody
        <5> QED
          BY <5>2
      <4>2. ASSUME ~isOpen PROVE \A i \in 1 .. Len(anc) : anc[i].tag # "body"
        BY <4>2, <3>3, <1>7 DEF EndlessBody
      <4>3. EndlessBody(q)
        BY <4>1, <4>2, <1>5, <1>8 DEF EndlessBody
      <4> QED
        BY <4>3, <2>3, <3>1, <1>8 DEF Nested, StaysWhere
    <3> QED
      BY <3>1, <3>2, <3>3 DEF ParserOK, Nested
  <2> QED
    BY <2>1, <2>2, <2>3, <1>3 DEF HandlerFacts
<1> QED
  BY <1>1, <1>10, <1>11, <1>12 DEF ParserOK, id

LEMMA StartKeeps ==
    ASSUME ParserOK(parser), locale \in Locales, NEW t \in StartTags, AfterStart(t) # Refused
    PROVE  ParserOK(AfterStart(t))
<1>1. HandlerOf(t) # Refused /\ AfterStart(t) = Handled(HandlerOf(t), t, IdOf(t))
  BY DEF AfterStart
<1> QED
  BY <1>1, HandlerOfFacts, HandledKeeps

LEMMA RestFacts ==
    ASSUME NEW S, NEW s \in Seq(S), s # <<>>
    PROVE  /\ Rest(s) \in Seq(S) /\ Len(s) \in Nat \ {0} /\ Len(Rest(s)) = Len(s) - 1
           /\ \A i \in 1 .. Len(s) - 1 : Rest(s)[i] = s[i]
           /\ Top(s) = s[Len(s)]
<1>1. Len(s) \in Nat \ {0} /\ \A i \in 1 .. Len(s) - 1 : s[i] \in S
  BY EmptySeq
<1>2. Rest(s) \in Seq(S) /\ Len(Rest(s)) = IF 1 <= Len(s) - 1 THEN Len(s) - 1 - 1 + 1 ELSE 0
  BY <1>1, SubSeqProperties DEF Rest
<1>3. \A i \in 1 .. Len(s) - 1 - 1 + 1 : Rest(s)[i] = s[1 + i - 1]
  BY <1>1, SubSeqProperties DEF Rest
<1>4. Len(Rest(s)) = Len(s) - 1
  <2> DEFINE n == Len(s)
             m == Len(Rest(s))
  <2>1. n \in Nat \ {0} /\ m = IF 1 <= n - 1 THEN n - 1 - 1 + 1 ELSE 0
    BY <1>1, <1>2
  <2> HIDE DEF n, m
  <2>2. m = n - 1
    BY <2>1
  <2> QED
    BY <2>2 DEF n, m
<1>5. ASSUME NEW i \in 1 .. Len(s) - 1 PROVE Rest(s)[i] = s[i]
  <2>1. i \in 1 .. Len(s) - 1 - 1 + 1 /\ 1 + i - 1 = i
    BY <1>1
  <2> QED
    BY <2>1, <1>3
<1> QED
  BY <1>1, <1>2, <1>4, <1>5 DEF Top

LEMMA EndKeeps ==
    ASSUME ParserOK(parser), NEW tag, AfterEnd(tag) # Refused
    PROVE  ParserOK(AfterEnd(tag))
<1> DEFINE anc == Rest(parser.ancestors)
           b == IF parser.inBody THEN WithEnd(parser.body, tag) ELSE parser.body
           q == [parser EXCEPT !.ancestors = anc, !.body = b, !.inBody = @ /\ tag # "body"]
<1>1. AfterEnd(tag) = q /\ parser.ancestors # <<>> /\ Top(parser.ancestors).tag = tag
  BY DEF AfterEnd
<1>2. /\ Shape(parser) /\ parser.ancestors \in Seq([tag : STRING, page : Ids])
      /\ {parser.inBody, parser.visitedBody, parser.lang, parser.title} \subseteq BOOLEAN
      /\ parser.body.open \in Seq(STRING)
      /\ {parser.body.started, parser.body.flawed} \subseteq BOOLEAN
      /\ Nested(parser) /\ Collected(parser)
  BY DEF ParserOK, Types
<1>3. /\ anc \in Seq([tag : STRING, page : Ids])
      /\ Len(parser.ancestors) \in Nat \ {0} /\ Len(anc) = Len(parser.ancestors) - 1
      /\ \A i \in 1 .. Len(parser.ancestors) - 1 : anc[i] = parser.ancestors[i]
      /\ parser.ancestors[Len(parser.ancestors)].tag = tag
  <2> DEFINE S == [tag : STRING, page : Ids]
  <2>1. parser.ancestors \in Seq(S) /\ parser.ancestors # <<>>
    BY <1>1, <1>2
  <2> HIDE DEF S
  <2>2. /\ Rest(parser.ancestors) \in Seq(S)
        /\ Len(parser.ancestors) \in Nat \ {0} /\ Len(anc) = Len(parser.ancestors) - 1
        /\ \A i \in 1 .. Len(parser.ancestors) - 1 : anc[i] = parser.ancestors[i]
        /\ Top(parser.ancestors) = parser.ancestors[Len(parser.ancestors)]
    BY <2>1, RestFacts
  <2> QED
    BY <2>2, <1>1 DEF S
<1>4. /\ DOMAIN b = DOMAIN parser.body
      /\ b.started = parser.body.started /\ b.ids = parser.body.ids
      /\ b.links = parser.body.links /\ b.assets = parser.body.assets
  <2>1. CASE parser.body.open # <<>> /\ Top(parser.body.open) = tag
    BY <2>1, <1>2 DEF WithEnd, Shape
  <2>2. CASE ~(parser.body.open # <<>> /\ Top(parser.body.open) = tag)
    BY <2>2, <1>2 DEF WithEnd, Shape
  <2> QED
    BY <2>1, <2>2
<1>5. /\ b.open \in Seq(STRING) /\ {b.started, b.flawed} \subseteq BOOLEAN
      /\ parser.inBody /\ parser.body.open # <<>> /\ Top(parser.body.open) = tag
            => b.open = Rest(parser.body.open) /\ b.flawed = parser.body.flawed
      /\ ~parser.inBody => b = parser.body
  <2>1. CASE parser.inBody /\ parser.body.open # <<>> /\ Top(parser.body.open) = tag
    <3>1. b = [parser.body EXCEPT !.open = Rest(@)]
      BY <2>1 DEF WithEnd
    <3>2. b.open = Rest(parser.body.open) /\ b.flawed = parser.body.flawed
      BY <3>1, <1>2 DEF Shape
    <3>3. Rest(parser.body.open) \in Seq(STRING)
      BY <2>1, <1>2, RestFacts
    <3> QED
      BY <2>1, <3>2, <3>3, <1>2, <1>4
  <2>2. CASE parser.inBody /\ ~(parser.body.open # <<>> /\ Top(parser.body.open) = tag)
    <3>1. b = [parser.body EXCEPT !.flawed = TRUE]
      BY <2>2 DEF WithEnd
    <3>2. b.open = parser.body.open /\ b.flawed = TRUE
      BY <3>1, <1>2 DEF Shape
    <3> QED
      BY <2>2, <3>2, <1>2, <1>4
  <2>3. CASE ~parser.inBody
    BY <2>3, <1>2
  <2> QED
    BY <2>1, <2>2, <2>3
<1> HIDE DEF anc, b
<1>6. /\ Shape(q) /\ q.body = b /\ q.ancestors = anc
      /\ q.inBody = (parser.inBody /\ tag # "body") /\ q.visitedBody = parser.visitedBody
      /\ q.lang = parser.lang /\ q.title = parser.title
      /\ q.assets = parser.assets /\ q.hrefs = parser.hrefs /\ q.ids = parser.ids
  BY <1>2, <1>4 DEF Shape
<1> HIDE DEF q
<1>7. Types(q)
  BY <1>2, <1>3, <1>5, <1>6 DEF Types
<1>8. Collected(q)
  BY <1>2, <1>4, <1>6 DEF Collected
<1>9. Nested(q)
  <2>1. CASE ~parser.inBody
    BY <2>1, <1>2, <1>5, <1>6 DEF Nested
  <2>2. CASE parser.inBody /\ EndlessBody(parser)
    <3>1. tag # "body"
      BY <2>2, <1>3 DEF EndlessBody
    <3>2. EndlessBody(q)
      BY <2>2, <1>3, <1>6 DEF EndlessBody
    <3> QED
      BY <2>2, <3>1, <3>2, <1>2, <1>6 DEF Nested
  <2>3. CASE parser.inBody /\ OpenBody(parser)
    <3> DEFINE n == Len(parser.ancestors)
    <3>1. /\ n \in Nat /\ n >= 2 /\ Len(parser.body.open) = n - 1
          /\ parser.body.open # <<>>
          /\ parser.body.open[n - 1] = tag
      BY <2>3, <1>2, <1>3 DEF OpenBody
    <3>2. Top(parser.body.open) = tag
      BY <3>1 DEF Top
    <3>3. /\ b.open = Rest(parser.body.open) /\ b.started /\ ~b.flawed
          /\ Len(b.open) = n - 2
          /\ \A i \in 1 .. n - 2 : b.open[i] = parser.body.open[i]
      <4>1. b.open = Rest(parser.body.open) /\ b.started /\ ~b.flawed
        BY <2>3, <3>1, <3>2, <1>4, <1>5 DEF OpenBody
      <4>2. /\ Len(Rest(parser.body.open)) = Len(parser.body.open) - 1
            /\ \A i \in 1 .. Len(parser.body.open) - 1 :
                 Rest(parser.body.open)[i] = parser.body.open[i]
        BY <3>1, <1>2, RestFacts
      <4> QED
        BY <4>1, <4>2, <3>1
    <3>4. CASE n = 2
      <4>1. tag = "body" /\ ~q.inBody
        BY <2>3, <3>4, <1>3, <1>6 DEF OpenBody
      <4>2. b.open = <<>>
        BY <3>3, <3>4, <1>5
      <4> QED
        BY <4>1, <4>2, <3>3, <2>3, <1>2, <1>6 DEF Nested, IsWhole
    <3>5. CASE n > 2
      <4>0. n \in 3 .. Len(parser.ancestors)
        BY <3>1, <3>5
      <4>1. tag # "body" /\ q.inBody
        BY <2>3, <4>0, <1>3, <1>6 DEF OpenBody
      <4>2. Len(anc) >= 2 /\ Len(b.open) = Len(anc) - 1 /\ anc[2].tag = "body"
        BY <2>3, <3>1, <3>3, <3>5, <1>3 DEF OpenBody
      <4>3. \A i \in 3 .. Len(anc) : anc[i].tag # "body"
        BY <2>3, <3>1, <3>5, <1>3 DEF OpenBody
      <4>4. \A i \in 1 .. Len(b.open) : b.open[i] = anc[i + 1].tag
        BY <2>3, <3>1, <3>3, <3>5, <1>3 DEF OpenBody
      <4>5. OpenBody(q)
        BY <4>2, <4>3, <4>4, <3>3, <1>6 DEF OpenBody
      <4> QED
        BY <4>1, <4>5, <2>3, <1>2, <1>6 DEF Nested
    <3>6. n = 2 \/ n > 2
      <4>1. n \in Nat /\ n >= 2
        BY <3>1
      <4> HIDE DEF n
      <4> QED
        BY <4>1
    <3> QED
      BY <3>4, <3>5, <3>6
  <2> QED
    BY <2>1, <2>2, <2>3, <1>2 DEF Nested
<1> QED
  BY <1>1, <1>7, <1>8, <1>9 DEF ParserOK

LEMMA TextKeeps ==
    ASSUME ParserOK(parser), NEW x, AfterText(x) # Refused
    PROVE  ParserOK(AfterText(x))
<1>1. CASE x # "data"
  <2>1. AfterText(x) = parser
    BY <1>1 DEF AfterText
  <2> QED
    BY <2>1
<1>2. CASE x = "data"
  <2> DEFINE title == parser.title \/ (~parser.inBody /\ Context = <<"html", "head", "title">>)
             b == IF parser.inBody THEN WithData(parser.body) ELSE parser.body
             q == [parser EXCEPT !.body = b, !.title = title]
  <2>1. AfterText(x) = q
    BY <1>2 DEF AfterText
  <2>2. /\ Shape(parser) /\ Types(parser) /\ Nested(parser) /\ Collected(parser)
    BY DEF ParserOK, Types
  <2>3. /\ DOMAIN b = DOMAIN parser.body /\ b.open = parser.body.open
        /\ b.started = parser.body.started /\ b.ids = parser.body.ids
        /\ b.links = parser.body.links /\ b.assets = parser.body.assets
        /\ parser.inBody => b.flawed = (parser.body.flawed \/ parser.body.open = <<>>)
        /\ ~parser.inBody => b = parser.body
    BY <2>2 DEF WithData, Shape
  <2>4. title \in BOOLEAN
    BY <2>2 DEF Types
  <2> HIDE DEF title, b
  <2>5. /\ Shape(q) /\ q.body = b /\ q.ancestors = parser.ancestors
        /\ q.inBody = parser.inBody /\ q.visitedBody = parser.visitedBody
        /\ q.lang = parser.lang /\ q.title = title
        /\ q.assets = parser.assets /\ q.hrefs = parser.hrefs /\ q.ids = parser.ids
    BY <2>2, <2>3 DEF Shape
  <2> HIDE DEF q
  <2>6. b.flawed \in BOOLEAN
    BY <2>2, <2>3 DEF Types
  <2>7. Types(q)
    BY <2>2, <2>3, <2>4, <2>5, <2>6 DEF Types
  <2>8. Collected(q)
    BY <2>2, <2>3, <2>5 DEF Collected
  <2>9. Nested(q)
    <3>1. CASE ~parser.inBody
      BY <3>1, <2>2, <2>3, <2>5 DEF Nested
    <3>2. CASE parser.inBody /\ EndlessBody(parser)
      BY <3>2, <2>2, <2>3, <2>5 DEF Nested, EndlessBody
    <3>3. CASE parser.inBody /\ OpenBody(parser)
      <4>1. parser.body.open # <<>>
        BY <3>3, <2>2 DEF OpenBody, Types
      <4>2. OpenBody(q)
        BY <3>3, <4>1, <2>3, <2>5 DEF OpenBody
      <4> QED
        BY <3>3, <4>2, <2>2, <2>5 DEF Nested
    <3> QED
      BY <3>1, <3>2, <3>3, <2>2 DEF Nested
  <2> QED
    BY <2>1, <2>7, <2>8, <2>9 DEF ParserOK
<1> QED
  BY <1>1, <1>2

-----------------------------------------------------------------------------
(* main.  The pages written refer to files that will be copied.            *)

PagesOK ==
    /\ pc \in {"parse", "copy"} => \A l \in DOMAIN pages : pages[l] \subseteq allAssets
    /\ pc = "parse" => copied = {} /\ todo # {} /\ locale \in todo
    /\ pc \in {"copy", "done"} => todo = {}
    /\ pc # "done" => listed = {}
    /\ pc = "done" => \A l \in DOMAIN pages : pages[l] \subseteq copied

IInv == TypeOK /\ ParserOK(parser) /\ PagesOK

LEMMA ParserTypeIs ==
    ASSUME NEW p, Types(p)
    PROVE  ParserType(p)
  BY DEF Types, ParserType

LEMMA InitIInv == Init => IInv
<1> SUFFICES ASSUME Init PROVE IInv
  OBVIOUS
<1>1. ParserOK(parser)
  BY NewParserOK DEF Init
<1>2. ParserType(parser)
  BY <1>1, ParserTypeIs DEF ParserOK
<1>3. DOMAIN pages = {}
  BY DEF Init
<1>4. TypeOK
  BY <1>2, <1>3, LocalesAssumption DEF Init, TypeOK
<1>5. PagesOK
  BY <1>3, LocalesAssumption DEF Init, PagesOK
<1> QED
  BY <1>1, <1>4, <1>5 DEF IInv

LEMMA RaiseKeeps ==
    ASSUME IInv, NEW why, Raise(why), pc = "parse",
           why \in {"refused", "incomplete", "missing", "collision"}
    PROVE  IInv' /\ pages' = pages
<1>1. ParserOK(parser)'
  BY NewParserOK DEF Raise
<1>2. ParserType(parser)'
  BY <1>1, ParserTypeIs DEF ParserOK, Raise
<1>3. TypeOK'
  BY <1>2, LocalesAssumption DEF IInv, TypeOK, PagesOK, Raise
<1>4. PagesOK'
  BY DEF IInv, PagesOK, Raise
<1> QED
  BY <1>1, <1>3, <1>4 DEF IInv, Raise

\* A token that the parser refuses, or takes.
LEMMA FeedKeeps ==
    ASSUME IInv, NEW p, Feed(p), p # Refused => ParserOK(p)
    PROVE  IInv' /\ pages' = pages
<1>1. CASE p = Refused
  BY <1>1, RaiseKeeps DEF Feed
<1>2. CASE p # Refused
  <2>1. parser' = p /\ UNCHANGED <<pc, todo, locale, allAssets, pages, copied, listed>>
    BY <1>2 DEF Feed
  <2>2. ParserType(parser)'
    BY <1>2, <2>1, ParserTypeIs DEF ParserOK
  <2>3. TypeOK'
    BY <2>1, <2>2 DEF IInv, TypeOK
  <2>4. PagesOK'
    BY <2>1 DEF IInv, PagesOK
  <2>5. ParserOK(parser)'
    BY <1>2, <2>1
  <2> QED
    BY <2>1, <2>3, <2>4, <2>5 DEF IInv
<1> QED
  BY <1>1, <1>2

\* A file of the page is collected under its name, if no other file has that name.
LEMMA WithAll ==
    ASSUME NEW A \in SUBSET Named, NEW B \in SUBSET Named, ~\E b \in B : Collides(A, b)
    PROVE  With(A, B) = A \cup B
<1>1. ASSUME NEW a \in A, NEW b \in B, a[1] = b[1] PROVE a = b
  <2>1. a[2] = b[2]
    BY <1>1 DEF Collides
  <2> QED
    BY <1>1, <2>1 DEF Named
<1> QED
  BY <1>1 DEF With

LEMMA WritePageKeeps ==
    ASSUME IInv, WritePage, pc = "parse", ~\E a \in parser.assets : Collides(allAssets, a)
    PROVE  IInv'
<1>1. allAssets \subseteq Named /\ parser.assets \subseteq Named
      /\ parser.body.assets \subseteq parser.assets
  BY DEF IInv, TypeOK, ParserOK, Collected, Named
<1>2. allAssets' = allAssets \cup parser.assets
  BY <1>1, WithAll DEF WritePage
<1>3. ParserOK(parser)'
  BY NewParserOK DEF WritePage
<1>4. ParserType(parser)'
  BY <1>3, ParserTypeIs DEF ParserOK, WritePage
<1>5. locale \in todo /\ todo \subseteq Locales /\ DOMAIN pages = Locales \ todo
      /\ copied = {} /\ listed = {}
  BY DEF IInv, TypeOK, PagesOK
<1>6. /\ todo' = todo \ {locale}
      /\ todo' = {} => pc' = "copy" /\ locale' = locale
      /\ todo' # {} => pc' = "parse" /\ locale' \in todo'
      /\ UNCHANGED <<copied, listed>>
      /\ pages' = [l \in DOMAIN pages \cup {locale} |->
                      IF l = locale THEN parser.body.assets ELSE pages[l]]
  BY DEF WritePage
<1>7. DOMAIN pages' = Locales \ todo'
  BY <1>5, <1>6
<1>8. allAssets' \subseteq Named
  BY <1>1, <1>2
<1>9. TypeOK'
  BY <1>4, <1>5, <1>6, <1>7, <1>8 DEF TypeOK, Named
<1>10. \A l \in DOMAIN pages' : pages'[l] \subseteq allAssets'
  BY <1>1, <1>2, <1>6 DEF IInv, PagesOK
<1>11. PagesOK'
  BY <1>5, <1>6, <1>10 DEF PagesOK
<1> QED
  BY <1>3, <1>9, <1>11 DEF IInv

LEMMA CopyKeeps ==
    ASSUME IInv, CopyAsset \/ WriteLocales
    PROVE  IInv' /\ pages' = pages
<1>1. ParserOK(parser)'
  BY DEF IInv, CopyAsset, WriteLocales
<1>2. CASE CopyAsset
  <2>1. TypeOK'
    BY <1>2 DEF IInv, TypeOK, CopyAsset
  <2>2. PagesOK'
    BY <1>2 DEF IInv, PagesOK, CopyAsset
  <2> QED
    BY <1>1, <1>2, <2>1, <2>2 DEF IInv, CopyAsset
<1>3. CASE WriteLocales
  <2>1. TypeOK'
    BY <1>3 DEF IInv, TypeOK, WriteLocales
  <2>2. PagesOK'
    BY <1>3 DEF IInv, PagesOK, WriteLocales
  <2> QED
    BY <1>1, <1>3, <2>1, <2>2 DEF IInv, WriteLocales
<1> QED
  BY <1>2, <1>3

\* Each step keeps the invariant, and only the end of a complete document whose links
\* lead somewhere writes a page.
LEMMA NextKeeps ==
    ASSUME IInv, [Next]_vars
    PROVE  IInv' /\ (pages' # pages => /\ pc = "parse" /\ IsComplete(parser)
                                      /\ parser.hrefs \subseteq parser.ids)
<1>0. ParserOK(parser) /\ locale \in Locales
  BY DEF IInv, TypeOK
<1>1. CASE StartTag
  <2>1. PICK t \in StartTags : Feed(AfterStart(t))
    BY <1>1 DEF StartTag
  <2> QED
    BY <1>0, <2>1, StartKeeps, FeedKeeps
<1>2. CASE EndTag
  <2>1. PICK tag : Feed(AfterEnd(tag))
    BY <1>2 DEF EndTag
  <2> QED
    BY <1>0, <2>1, EndKeeps, FeedKeeps
<1>3. CASE Text
  <2>1. PICK x : Feed(AfterText(x))
    BY <1>3 DEF Text
  <2> QED
    BY <1>0, <2>1, TextKeeps, FeedKeeps
<1>4. CASE EndOfFile
  <2>1. CASE IsComplete(parser) /\ parser.hrefs \subseteq parser.ids
             /\ ~\E a \in parser.assets : Collides(allAssets, a)
    <3>1. WritePage /\ pc = "parse"
      BY <1>4, <2>1 DEF EndOfFile
    <3> QED
      BY <2>1, <3>1, WritePageKeeps
  <2>2. CASE ~(IsComplete(parser) /\ parser.hrefs \subseteq parser.ids
               /\ ~\E a \in parser.assets : Collides(allAssets, a))
    <3>1. pc = "parse" /\ (Raise("incomplete") \/ Raise("missing") \/ Raise("collision"))
      BY <1>4, <2>2 DEF EndOfFile
    <3> QED
      BY <3>1, RaiseKeeps
  <2> QED
    BY <2>1, <2>2
<1>5. CASE CopyAsset \/ WriteLocales
  BY <1>5, CopyKeeps
<1>6. CASE UNCHANGED vars
  BY <1>6 DEF vars, IInv, TypeOK, PagesOK
<1> QED
  BY <1>1, <1>2, <1>3, <1>4, <1>5, <1>6 DEF Next

LEMMA Invariance == Spec => []IInv
<1>1. IInv /\ [Next]_vars => IInv'
  BY NextKeeps
<1> QED
  BY InitIInv, <1>1, PTL DEF Spec

\* The parser's state and the files collected have their types, and collected files their
\* names, as in ManualPackage.
THEOREM TypeCorrect == Spec => []TypeOK
<1>1. IInv => TypeOK
  BY DEF IInv
<1> QED
  BY Invariance, <1>1, PTL

\* The locales the browser is built with have their pages, and these the files they
\* refer to, for any locales, files and names.
THEOREM ListedComplete == Spec => []ListedAreComplete
<1>1. IInv => ListedAreComplete
  BY DEF IInv, TypeOK, PagesOK, ListedAreComplete
<1> QED
  BY Invariance, <1>1, PTL

\* Whatever the tokens of a document, its page is one whole body.
THEOREM Whole == Spec => PagesAreWhole
<1>1. ASSUME IInv, [Next]_vars PROVE [pages' # pages => IsWhole(parser.body)]_vars
  <2>1. ASSUME pages' # pages PROVE IsWhole(parser.body)
    <3>1. IsComplete(parser)
      BY <1>1, <2>1, NextKeeps
    <3> QED
      BY <1>1, <3>1 DEF IInv, ParserOK, Nested, IsComplete
  <2> QED
    BY <2>1
<1>2. IInv /\ [Next]_vars => [pages' # pages => IsWhole(parser.body)]_vars
  BY <1>1
<1> QED
  BY Invariance, <1>2, PTL DEF Spec, PagesAreWhole

-----------------------------------------------------------------------------
(* Links.                                                                  *)

IsTopSection(link) == link.path = <<TopPage>> /\ link.id # NoId

\* What _convert_relative_href makes of an internal link is the section it leads to,
\* but for a section of the top page, to which it gives an empty page.
LEMMA LinkIs ==
    ASSUME NEW t \in StartTags, IsInternal(t.href)
    PROVE  \/ InternalId(t.href) = SectionOf(t.href)
           \/ IsTopSection(t.href) /\ InternalId(t.href) = << <<>> >> \o t.href.id
<1> DEFINE link == t.href
           path == link.path
           page == CHOOSE p \in PagesOf(path) : TRUE
<1>1. path \in Seq(STRING) /\ link.id \in Seq(Seq(STRING))
  BY TagsAssumption DEF StartTagType, Ids
<1>2. CASE link.to = "id"
  BY <1>2 DEF InternalId, SectionOf
<1>3. CASE link.to # "id"
  <2>1. PagesOf(path) # {}
    BY <1>3 DEF IsInternal
  <2>2. page \in InternalPages /\ StartsWith(path, page.path)
    BY <2>1 DEF PagesOf
  <2> HIDE DEF page
  <2>3. CASE path = <<TopPage>> /\ link.id = NoId
    <3>1. InternalId(link) = TopId
      BY <1>3, <2>3 DEF InternalId, RelativeId
    <3>2. SectionOf(link) = TopId \o <<>>
      BY <1>3, <2>3 DEF SectionOf, PageOf, NoId
    <3>3. TopId \in Seq({<<"index">>})
      <4>1. ASSUME NEW e PROVE <<e>> \in Seq({e})
        OBVIOUS
      <4> QED
        BY <4>1 DEF TopId
    <3> QED
      BY <3>1, <3>2, <3>3, ConcatEmptySeq
  <2>4. CASE ~(path = <<TopPage>> /\ link.id = NoId) /\ page.path = <<TopPage>>
    <3>1. ~page.keep
      <4>1. /\ page.path # <<"get-in-touch", "bug-or-feedback">>
            /\ page.path # <<"get-in-touch", "user-support">>
        BY <2>4
      <4> QED
        BY <4>1, <2>2 DEF InternalPages
    <3>2. Len(page.path) = 1 /\ Len(path) >= 1 /\ SubSeq(path, 1, 1) = <<TopPage>>
      BY <2>2, <2>4 DEF StartsWith
    <3>3. path[1] = TopPage
      <4>1. SubSeq(path, 1, 1)[1] = path[1]
        BY <1>1, <3>2
      <4>2. <<TopPage>>[1] = TopPage
        OBVIOUS
      <4> QED
        BY <4>1, <4>2, <3>2
    <3>4. InternalId(link) = <<SubSeq(path, 2, Len(path))>> \o link.id
      <4>1. Len(page.path) + 1 = 2
        BY <3>2
      <4>2. RelativeId(link) = <<SubSeq(path, Len(page.path) + 1, Len(path))>> \o link.id
        BY <2>4, <3>1 DEF RelativeId, page
      <4> QED
        BY <4>1, <4>2, <1>3 DEF InternalId
    <3>5. CASE path = <<TopPage>>
      <4>1. SubSeq(path, 2, Len(path)) = <<>>
        BY <3>5
      <4> QED
        BY <4>1, <3>4, <3>5, <2>4 DEF IsTopSection
    <3>6. CASE path # <<TopPage>>
      <4>1. SectionOf(link) = <<Tail(path)>> \o link.id
        BY <3>3, <3>6, <1>3 DEF SectionOf, PageOf
      <4>2. Tail(path) = SubSeq(path, 2, Len(path))
        BY <1>1, <3>2
      <4> QED
        BY <4>1, <4>2, <3>4
    <3> QED
      BY <3>5, <3>6
  <2>5. CASE ~(path = <<TopPage>> /\ link.id = NoId) /\ page.path # <<TopPage>>
    <3>1. page.keep /\ Len(page.path) = 2 /\ page.path[1] = "get-in-touch"
      <4>1. \/ page = [path |-> <<"get-in-touch", "bug-or-feedback">>, keep |-> TRUE]
            \/ page = [path |-> <<"get-in-touch", "user-support">>, keep |-> TRUE]
        BY <2>2, <2>5 DEF InternalPages
      <4> QED
        BY <4>1
    <3>2. Len(path) >= 2 /\ SubSeq(path, 1, 2) = page.path
      BY <2>2, <3>1 DEF StartsWith
    <3>3. path[1] = "get-in-touch" /\ path # <<TopPage>>
      <4>1. SubSeq(path, 1, 2)[1] = path[1]
        BY <1>1, <3>2
      <4> QED
        BY <4>1, <3>1, <3>2 DEF TopPage
    <3>4. SectionOf(link) = <<path>> \o link.id
      BY <3>3, <1>3 DEF SectionOf, PageOf, TopPage
    <3>5. InternalId(link) = <<path>> \o link.id
      BY <3>1, <2>5, <1>3 DEF InternalId, RelativeId, page
    <3> QED
      BY <3>4, <3>5
  <2> QED
    BY <2>3, <2>4, <2>5
<1> QED
  BY <1>2, <1>3

\* As in ManualPackage: what a document is refused for at its end.
THEOREM RefusedForALink == Spec => RefusedForMissingSections
<1> DEFINE Step == pc = "parse" /\ pc' = "missing" => \E l \in parser.body.links :
                     \/ SectionOf(l[1]) \notin parser.body.ids
                     \/ l[1].path = <<TopPage>> /\ l[1].id # NoId
<1>1. ASSUME IInv, Next, pc = "parse", pc' = "missing" PROVE Step
  <2>1. EndOfFile
    BY <1>1 DEF Next, StartTag, EndTag, Text, Feed, Raise, CopyAsset, WriteLocales
  <2>2. ~(parser.hrefs \subseteq parser.ids)
    BY <1>1, <2>1 DEF EndOfFile, Raise, WritePage
  <2>3. PICK l \in parser.body.links : l[2] \notin parser.body.ids /\ IsLink(l)
    BY <1>1, <2>2 DEF IInv, ParserOK, Collected
  <2>4. PICK t \in StartTags : IsInternal(t.href) /\ l = <<t.href, InternalId(t.href)>>
    BY <2>3 DEF IsLink
  <2>5. l[1] = t.href /\ l[2] = InternalId(t.href)
    BY <2>4
  <2> QED
    BY <2>3, <2>4, <2>5, LinkIs DEF IsTopSection
<1>2. IInv /\ [Next]_vars => [Step]_vars
  BY <1>1 DEF vars
<1> QED
  BY Invariance, <1>2, PTL DEF Spec, RefusedForMissingSections

\* An id with a name at its beginning.  If those of the documents have one, so have the
\* ids that are made of them, which no link to a section of the top page can be.
HasName(id) == id \in Ids /\ id # NoId /\ id[1] # <<>>

IdsHaveNames == \A t \in StartTags : t.id # NoId => t.id[1] # <<>>

IdsOK(p) ==
    /\ \A i \in 1 .. Len(p.ancestors) : p.ancestors[i].page # NoId => HasName(p.ancestors[i].page)
    /\ \A i, j \in 1 .. Len(p.ancestors) :
         p.ancestors[i].page # NoId /\ p.ancestors[j].page # NoId => i = j
    /\ \A id \in p.ids : HasName(id)

LEMMA IdOfHasName ==
    ASSUME IdsHaveNames, ParserOK(parser), IdsOK(parser),
           NEW t \in StartTags, HandlerOf(t) # Refused, IdOf(t) # NoId
    PROVE  HasName(IdOf(t))
<1>1. t.id \in Ids /\ (t.id # NoId => HasName(t.id))
  BY TagsAssumption DEF StartTagType, HasName, IdsHaveNames
<1>2. CASE ~(parser.inBody /\ IsHeading(t))
  BY <1>1, <1>2 DEF IdOf
<1>3. CASE parser.inBody /\ IsHeading(t)
  <2>1. t.tag = "div" /\ DivTag(t) # Refused
    BY <1>3 DEF HandlerOf, IsHeading, ForbiddenTags
  <2>2. t.id # NoId /\ Paged # {}
    BY <1>3, <2>1 DEF DivTag
  <2>3. PICK i \in Paged : TRUE
    BY <2>2
  <2>4. DOMAIN parser.ancestors = 1 .. Len(parser.ancestors)
    BY DEF ParserOK, Types, ParserType
  <2>5. \A j \in Paged : j = i
    BY <2>3, <2>4 DEF Paged, IdsOK
  <2>6. i \in Int
    BY <2>3, <2>4 DEF Paged
  <2>7. PageAbove = parser.ancestors[i].page
    <3>1. \A j \in Paged : (\A k \in Paged : k <= j) <=> j = i
      BY <2>3, <2>5, <2>6
    <3>2. (CHOOSE j \in Paged : \A k \in Paged : k <= j) = i
      BY <2>3, <3>1, <2>5
    <3> QED
      BY <3>2 DEF PageAbove
  <2>8. HasName(PageAbove)
    BY <2>3, <2>4, <2>7 DEF Paged, IdsOK
  <2>9. HasName(PageAbove \o t.id)
    <3>1. PageAbove \in Ids /\ PageAbove # <<>> /\ PageAbove[1] # <<>> /\ t.id \in Ids
      BY <1>1, <2>8 DEF HasName, NoId
    <3>2. Len(PageAbove) >= 1 /\ (PageAbove \o t.id) \in Ids
      BY <3>1 DEF Ids
    <3>3. (PageAbove \o t.id)[1] = PageAbove[1] /\ (PageAbove \o t.id) # <<>>
      BY <3>1, <3>2 DEF Ids
    <3> QED
      BY <3>1, <3>2, <3>3 DEF HasName, NoId
  <2> QED
    BY <1>3, <2>9 DEF IdOf
<1> QED
  BY <1>2, <1>3

LEMMA StartIds ==
    ASSUME IdsHaveNames, ParserOK(parser), IdsOK(parser), locale \in Locales,
           NEW t \in StartTags, AfterStart(t) # Refused
    PROVE  IdsOK(AfterStart(t))
<1> DEFINE h == HandlerOf(t)
           kept == KeptId(h, t, IdOf(t))
           isOpen == ~(t.tag \in VoidTags) /\ ~t.closed
           page == IF parser.inBody /\ IsPage(t) THEN t.id ELSE NoId
           entry == [tag |-> t.tag, page |-> page]
           b == IF h.inBody THEN WithStart(h.body, t.tag, kept, isOpen) ELSE h.body
           anc == IF isOpen THEN Append(h.ancestors, entry) ELSE h.ancestors
           q == [h EXCEPT !.ids = SavedIds(h, kept), !.body = b, !.ancestors = anc]
<1>1. h # Refused /\ AfterStart(t) = q
  BY DEF AfterStart, Handled
<1>2. Shape(h) /\ h.ancestors = parser.ancestors /\ h.ids = parser.ids
  BY <1>1, HandlerOfFacts DEF HandlerFacts, SameElements
<1>3. kept # NoId => HasName(kept)
  BY <1>1, IdOfHasName DEF KeptId
<1>4. t.tag \in STRING /\ page \in Ids /\ (page # NoId => HasName(page))
  <2>1. StartTagType(t)
    BY TagsAssumption
  <2>2. NoId \in Ids
    BY DEF NoId, Ids
  <2> QED
    BY <2>1, <2>2 DEF StartTagType, HasName, IdsHaveNames
<1>5. page # NoId => Paged = {}
  <2> SUFFICES ASSUME parser.inBody, IsPage(t) PROVE Paged = {}
    OBVIOUS
  <2>1. t.tag = "div" /\ DivTag(t) # Refused
    BY <1>1 DEF HandlerOf, IsPage, ForbiddenTags
  <2> QED
    BY <2>1 DEF DivTag
<1>6. isOpen \in BOOLEAN /\ entry \in [tag : STRING, page : Ids] /\ entry.page = page
  BY <1>4
<1> HIDE DEF h, kept, isOpen, page, entry, b
<1>7. q.ids = SavedIds(h, kept) /\ q.ancestors = anc
  BY <1>2 DEF Shape
<1>8. \A id \in q.ids : HasName(id)
  BY <1>2, <1>3, <1>7 DEF SavedIds, IdsOK
<1>9. parser.ancestors \in Seq([tag : STRING, page : Ids])
  BY DEF ParserOK, Types, ParserType
<1>10. CASE ~isOpen
  <2>1. anc = parser.ancestors
    BY <1>2, <1>10
  <2> QED
    BY <2>1, <1>1, <1>7, <1>8 DEF IdsOK
<1>11. CASE isOpen
  <2> DEFINE n == Len(parser.ancestors)
  <2>1. anc = Append(parser.ancestors, entry)
    BY <1>2, <1>11
  <2> HIDE DEF anc
  <2>2. /\ n \in Nat /\ Len(anc) = n + 1
        /\ \A i \in 1 .. n : anc[i] = parser.ancestors[i]
        /\ anc[n + 1] = entry
    BY <2>1, <1>6, <1>9, AncestorFacts
  <2>3. \A i \in 1 .. n : parser.ancestors[i].page # NoId => page = NoId
    BY <1>5, <1>9 DEF Paged
  <2>4. \A i \in 1 .. n + 1 : anc[i].page # NoId => HasName(anc[i].page)
    <3>1. \A i \in 1 .. n : anc[i].page # NoId => HasName(anc[i].page)
      BY <2>2 DEF IdsOK
    <3>2. anc[n + 1].page # NoId => HasName(anc[n + 1].page)
      BY <2>2, <1>4, <1>6
    <3> HIDE DEF n
    <3> QED
      BY <3>1, <3>2, <2>2
  <2>5. \A i, j \in 1 .. n + 1 : anc[i].page # NoId /\ anc[j].page # NoId => i = j
    <3>1. \A i, j \in 1 .. n : anc[i].page # NoId /\ anc[j].page # NoId => i = j
      BY <2>2 DEF IdsOK
    <3>2. \A i \in 1 .. n : ~(anc[i].page # NoId /\ anc[n + 1].page # NoId)
      BY <2>2, <2>3, <1>6
    <3> HIDE DEF n
    <3> QED
      BY <3>1, <3>2, <2>2
  <2> QED
    BY <2>2, <2>4, <2>5, <1>1, <1>7, <1>8 DEF IdsOK
<1> QED
  BY <1>10, <1>11, <1>6

LEMMA EndIds ==
    ASSUME ParserOK(parser), IdsOK(parser), NEW tag, AfterEnd(tag) # Refused
    PROVE  IdsOK(AfterEnd(tag))
<1> DEFINE anc == Rest(parser.ancestors)
           q == [parser EXCEPT !.ancestors = anc,
                               !.body = IF parser.inBody THEN WithEnd(@, tag) ELSE @,
                               !.inBody = @ /\ tag # "body"]
<1>1. AfterEnd(tag) = q /\ parser.ancestors # <<>>
  BY DEF AfterEnd
<1>2. Shape(parser) /\ parser.ancestors \in Seq([tag : STRING, page : Ids])
  BY DEF ParserOK, Types, ParserType
<1>3. /\ Len(parser.ancestors) \in Nat \ {0} /\ Len(anc) = Len(parser.ancestors) - 1
      /\ \A i \in 1 .. Len(parser.ancestors) - 1 : anc[i] = parser.ancestors[i]
  BY <1>1, <1>2, RestFacts
<1> HIDE DEF anc
<1>4. q.ancestors = anc /\ q.ids = parser.ids
  BY <1>2 DEF Shape
<1> QED
  BY <1>1, <1>3, <1>4 DEF IdsOK

LEMMA TextIds ==
    ASSUME ParserOK(parser), IdsOK(parser), NEW x, AfterText(x) # Refused
    PROVE  IdsOK(AfterText(x))
<1>1. Shape(parser)
  BY DEF ParserOK, Types
<1>2. CASE x # "data"
  <2>1. AfterText(x) = parser
    BY <1>2 DEF AfterText
  <2> QED
    BY <2>1
<1>3. CASE x = "data"
  <2>1. AfterText(x).ancestors = parser.ancestors /\ AfterText(x).ids = parser.ids
    BY <1>1, <1>3 DEF AfterText, Shape
  <2> QED
    BY <2>1 DEF IdsOK
<1> QED
  BY <1>2, <1>3

LEMMA NextIds ==
    ASSUME IdsHaveNames, IInv, IdsOK(parser), [Next]_vars
    PROVE  IdsOK(parser)'
<1>0. ParserOK(parser) /\ locale \in Locales /\ IdsOK(NewParser)
  BY DEF IInv, TypeOK, NewParser, IdsOK
<1>1. ASSUME NEW p, Feed(p), p # Refused => IdsOK(p) PROVE IdsOK(parser)'
  BY <1>0, <1>1 DEF Feed, Raise
<1>2. CASE StartTag
  BY <1>0, <1>1, <1>2, StartIds DEF StartTag
<1>3. CASE EndTag
  BY <1>0, <1>1, <1>3, EndIds DEF EndTag
<1>4. CASE Text
  BY <1>0, <1>1, <1>4, TextIds DEF Text
<1>5. CASE EndOfFile
  <2>1. parser' = NewParser
    BY <1>5 DEF EndOfFile, Raise, WritePage
  <2> QED
    BY <1>0, <2>1
<1>6. CASE CopyAsset \/ WriteLocales \/ UNCHANGED vars
  <2>1. parser' = parser
    BY <1>6 DEF CopyAsset, WriteLocales, vars
  <2> QED
    BY <2>1
<1> QED
  BY <1>2, <1>3, <1>4, <1>5, <1>6 DEF Next

\* As in ManualPackage: a page's internal links are in it, and lead to what they lead to
\* online, if no id of the documents begins with an empty name.
THEOREM LinksLead == IdsHaveNames => (Spec => LinksLeadToTheirSections)
<1> SUFFICES ASSUME IdsHaveNames PROVE Spec => LinksLeadToTheirSections
  OBVIOUS
<1> DEFINE Both == IInv /\ IdsOK(parser)
           Step == pages' # pages => \A l \in parser.body.links :
                     l[2] = SectionOf(l[1]) /\ l[2] \in parser.body.ids
<1>1. Init => Both
  BY InitIInv DEF Init, NewParser, IdsOK
<1>2. Both /\ [Next]_vars => Both'
  BY NextKeeps, NextIds
<1>3. ASSUME Both, Next, pages' # pages PROVE Step
  <2> SUFFICES ASSUME NEW l \in parser.body.links
               PROVE  l[2] = SectionOf(l[1]) /\ l[2] \in parser.body.ids
    OBVIOUS
  <2>1. parser.hrefs \subseteq parser.ids
    BY <1>3, NextKeeps
  <2>2. l[2] \in parser.body.ids /\ HasName(l[2]) /\ IsLink(l)
    BY <1>3, <2>1 DEF IInv, ParserOK, Collected, IdsOK
  <2>3. PICK t \in StartTags : IsInternal(t.href) /\ l = <<t.href, InternalId(t.href)>>
    BY <2>2 DEF IsLink
  <2>4. l[1] = t.href /\ l[2] = InternalId(t.href)
    BY <2>3
  <2>5. ~(IsTopSection(t.href) /\ l[2] = << <<>> >> \o t.href.id)
    <3>1. t.href.id \in Ids
      BY TagsAssumption DEF StartTagType
    <3>2. (<< <<>> >> \o t.href.id)[1] = <<>>
      BY <3>1 DEF Ids
    <3> QED
      BY <2>2, <3>2 DEF HasName
  <2> QED
    BY <2>2, <2>3, <2>4, <2>5, LinkIs
<1>4. Both /\ [Next]_vars => [Step]_vars
  BY <1>3 DEF vars
<1> QED
  BY <1>1, <1>2, <1>4, PTL DEF Spec, LinksLeadToTheirSections
=============================================================================
