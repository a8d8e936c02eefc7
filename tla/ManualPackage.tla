---------------------------- MODULE ManualPackage ----------------------------
(***************************************************************************)
(* projects/manual/package_marble_build_artifacts.py: the offline manual   *)
(* of each locale, an HTML page of many sections, is cut down to a body    *)
(* the browser may show, its links are turned into links within the page,  *)
(* and the files it needs are copied under flat names.  The list of        *)
(* locales, which the browser is built with, is written last.              *)
(*                                                                         *)
(* ManualParser gets the tokens of html.parser one at a time, and each of  *)
(* its handlers is an action.  The documents are of any length: what is    *)
(* remembered of one is a set, and only its nesting is bounded.            *)
(*                                                                         *)
(* An id is the sequence of the names that "___" separates in it, a name   *)
(* the sequence of the parts of a path that "__" separates in it.          *)
(***************************************************************************)
EXTENDS Integers, Sequences, FiniteSets

CONSTANTS
    Locales, Default,   \* locale_html, and its first entry, "en"
    StartTags,      \* the start tags a document may have, see StartTagType
    Texts,          \* what else it may have: "data", "doctype", "pi"
    AssetPath,      \* AssetPath[l][src]: the file a document of l means by src, if
                    \* there is one below the directory
    AssetName,      \* AssetName[path]: its name, made of safe characters
    MaxDepth        \* bound on the nesting of a document

TopPage == "tor-browser"
TopId == << <<"index">> >>
InternalPages ==
    {[path |-> <<TopPage>>, keep |-> FALSE],
     [path |-> <<"get-in-touch", "bug-or-feedback">>, keep |-> TRUE],
     [path |-> <<"get-in-touch", "user-support">>, keep |-> TRUE]}

ForbiddenTags == {"script", "noscript", "meta", "link", "html", "head", "body"}
VoidTags ==
    {"area", "base", "br", "col", "embed", "hr", "img", "input", "link", "meta", "source",
     "track", "wbr"}

Ids == Seq(Seq(STRING))
NoId == <<>>
NoLink == [to |-> "nowhere", path |-> <<>>, id |-> NoId]

\* A start tag.  An attribute that is not there is "", an id NoId and an href NoLink.  Of
\* class, and of the rel of a link, there is what the parser looks for; src is also the
\* address of a link, and srcset whether there is one.  href is an external
\* address, an id of the page, or a path with a fragment, from the root of the site.
StartTagType(t) ==
    /\ DOMAIN t = {"tag", "closed", "lang", "id", "class", "src", "srcset", "href"}
    /\ {t.tag, t.lang, t.class, t.src} \subseteq STRING /\ {t.closed, t.srcset} \subseteq BOOLEAN
    /\ t.href.to \in {"nowhere", "external", "mailto", "id", "path", "other"}
    /\ t.href.path \in Seq(STRING) /\ {t.id, t.href.id} \subseteq Ids

ASSUME LocalesAssumption == Default \in Locales /\ IsFiniteSet(Locales)
ASSUME TagsAssumption == \A t \in StartTags : StartTagType(t)
ASSUME AssetsAssumption ==
    \A l \in Locales : \A s \in DOMAIN AssetPath[l] : AssetPath[l][s] \in DOMAIN AssetName
ASSUME DepthAssumption == MaxDepth \in Nat

VARIABLES
    pc,         \* main: "parse", "copy", "locales", then "done" or why it raised
    todo,       \* locales whose page is not written, the current one included
    locale,     \* the current one
    parser,     \* its ManualParser
    allAssets,  \* all_asset_paths, a set of <<name, path>>
    pages,      \* pages[l]: the assets the page written for l refers to, as the same
    copied,     \* the files in the directory of assets, as the same
    listed      \* the locales in the file of locales, {} before it is written

vars == <<pc, todo, locale, parser, allAssets, pages, copied, listed>>

-----------------------------------------------------------------------------
(* What is written of a body: which elements of it are open, the ids and    *)
(* links and assets it has, and whether anything of it is out of place, so  *)
(* that a reader of it would see other elements than were meant.            *)

NoBody == [started |-> FALSE, open |-> <<>>, ids |-> {}, links |-> {}, assets |-> {}, flawed |-> FALSE]

Top(s) == s[Len(s)]
Rest(s) == SubSeq(s, 1, Len(s) - 1)

WithStart(b, tag, id, isOpen) ==
    LET isBody == tag = "body" /\ ~b.started
    IN  [b EXCEPT !.started = TRUE,
                  !.open = IF isOpen THEN Append(@, tag) ELSE @,
                  !.ids = IF id = NoId THEN @ ELSE @ \cup {id},
                  !.flawed = \/ @
                             \/ id # NoId /\ id \in b.ids
                             \/ ~isBody /\ (b.open = <<>> \/ tag \in ForbiddenTags)]

WithEnd(b, tag) ==
    IF b.open # <<>> /\ Top(b.open) = tag
       THEN [b EXCEPT !.open = Rest(@)] ELSE [b EXCEPT !.flawed = TRUE]

WithData(b) == [b EXCEPT !.flawed = @ \/ b.open = <<>>]

\* The body is one element, and all of it.
IsWhole(b) == b.started /\ b.open = <<>> /\ ~b.flawed

-----------------------------------------------------------------------------
(* ManualParser.  A handler's operator is the parser after it, or Refused.  *)

NewParser ==
    [ancestors |-> <<>>,    \* [tag, page]: page is the id of an olm-page
     inBody |-> FALSE, visitedBody |-> FALSE,
     lang |-> FALSE,        \* lang and dir of html, found and right
     title |-> FALSE, body |-> NoBody,
     assets |-> {}, hrefs |-> {}, ids |-> {}]

Refused == [refused |-> TRUE]

Context == [i \in DOMAIN parser.ancestors |-> parser.ancestors[i].tag]

\* html.
HtmlTag(t) ==
    IF Context # <<>> \/ parser.lang \/ t.lang # locale THEN Refused
    ELSE [parser EXCEPT !.lang = TRUE]

\* _swap_asset_path.
Asset(src) == <<AssetName[AssetPath[locale][src]], AssetPath[locale][src]>>

Collides_Never(A, a) == FALSE

Collides(A, a) == \E b \in A : a[1] = b[1] /\ a[2] # b[2]

\* The dictionary A with the names of B it has not.
With(A, B) == A \cup {b \in B : \A a \in A : a[1] # b[1]}

WithAsset(src) ==
    IF src \notin DOMAIN AssetPath[locale] \/ Collides(parser.assets, Asset(src)) THEN Refused
    ELSE [parser EXCEPT !.assets = With(@, {Asset(src)}), !.body.assets = @ \cup {Asset(src)}]

\* link, of a stylesheet, which the page that is written has in its head.
LinkTag(t) == IF t.class # "stylesheet" THEN parser ELSE WithAsset(t.src)

\* body.
BodyTag(t) ==
    IF Context # <<"html">> \/ parser.visitedBody THEN Refused
    ELSE [parser EXCEPT !.visitedBody = TRUE, !.inBody = TRUE]

ImgTag(t) ==
    CASE t.srcset -> Refused
      [] ~t.srcset /\ t.src = "" -> parser
      [] OTHER -> WithAsset(t.src)

\* _convert_relative_href: the id that the link has in the page, or none of it.
StartsWith(s, path) == Len(path) <= Len(s) /\ SubSeq(s, 1, Len(path)) = path

PagesOf(path) == {p \in InternalPages : StartsWith(path, p.path)}

RelativeId_KeepsPrefix(link) == <<link.path>> \o link.id

RelativeId(link) ==
    IF link.path = <<TopPage>> /\ link.id = NoId THEN TopId
    ELSE LET page == CHOOSE p \in PagesOf(link.path) : TRUE
             parts == IF page.keep THEN link.path
                      ELSE SubSeq(link.path, Len(page.path) + 1, Len(link.path))
         IN  <<parts>> \o link.id

IsInternal(link) == link.to = "id" \/ (link.to = "path" /\ PagesOf(link.path) # {})

InternalId(link) == IF link.to = "id" THEN link.id ELSE RelativeId(link)

ATag(t) ==
    IF t.href.to = "other" \/ (t.href.to = "path" /\ t.href.path = <<>>) THEN Refused
    ELSE IF ~IsInternal(t.href) THEN parser
    ELSE [parser EXCEPT !.hrefs = @ \cup {InternalId(t.href)},
                        !.body.links = @ \cup {<<t.href, InternalId(t.href)>>}]

\* div: the page of a heading is the nearest one above it, and there is one at most.
Paged == {i \in DOMAIN parser.ancestors : parser.ancestors[i].page # NoId}

PageAbove == parser.ancestors[CHOOSE i \in Paged : \A j \in Paged : j <= i].page

IsHeading(t) == t.tag = "div" /\ t.class = "heading-anchor"
IsPage(t) == t.tag = "div" /\ t.class = "olm-page"

DivTag(t) ==
    IF \/ IsHeading(t) /\ (t.id = NoId \/ Paged = {})
       \/ IsPage(t) /\ (t.id = NoId \/ Paged # {}) THEN Refused
    ELSE parser

IdOf(t) == IF parser.inBody /\ IsHeading(t) THEN PageAbove \o t.id ELSE t.id

HandlerOf(t) ==
    IF ~parser.inBody
       THEN CASE t.tag = "html" -> HtmlTag(t)
              [] t.tag = "link" -> LinkTag(t)
              [] t.tag = "body" -> BodyTag(t)
              [] OTHER -> parser
       ELSE CASE t.tag \in ForbiddenTags -> Refused
              [] t.tag = "img" -> ImgTag(t)
              [] t.tag = "a" -> ATag(t)
              [] t.tag = "div" -> DivTag(t)
              [] OTHER -> parser

\* _save_id: the id an element keeps, which is none for a toggler that repeats one.
IsToggler(t) == t.tag = "input" /\ t.class = "toggler"

KeptId(p, t, id) == IF IsToggler(t) /\ p.inBody /\ id \in p.ids THEN NoId ELSE id

SavedIds_Anywhere(p, id) == IF id # NoId THEN p.ids \cup {id} ELSE p.ids

SavedIds(p, id) == IF id # NoId /\ p.inBody THEN p.ids \cup {id} ELSE p.ids

\* The rest of _handle_tag, for the parser the handler left.
Handled(p, t, id) ==
    LET kept == KeptId(p, t, id)
        isVoid == t.tag \in VoidTags
        isOpen == ~isVoid /\ ~t.closed
    IN  IF p.inBody /\ kept # NoId /\ kept \in p.ids THEN Refused
        ELSE [p EXCEPT
                !.ids = SavedIds(p, kept),
                !.body = IF p.inBody THEN WithStart(@, t.tag, kept, isOpen) ELSE @,
                !.ancestors = IF isOpen
                    THEN Append(@, [tag |-> t.tag,
                                    page |-> IF parser.inBody /\ IsPage(t) THEN t.id ELSE NoId])
                    ELSE @]

AfterStart(t) ==
    LET p == HandlerOf(t) IN IF p = Refused THEN Refused ELSE Handled(p, t, IdOf(t))

\* handle_endtag: the end of an element writes the tag its start wrote.
AfterEnd(tag) ==
    IF parser.ancestors = <<>> THEN Refused
    ELSE IF Top(parser.ancestors).tag # tag THEN Refused
    ELSE [parser EXCEPT !.ancestors = Rest(@),
                        !.body = IF parser.inBody THEN WithEnd(@, tag) ELSE @,
                        !.inBody = @ /\ tag # "body"]

\* handle_data, handle_decl, handle_pi and unknown_decl.
AfterText(x) ==
    CASE x = "data" ->
           [parser EXCEPT !.body = IF parser.inBody THEN WithData(@) ELSE @,
                          !.title = @ \/ (~parser.inBody /\ Context = <<"html", "head", "title">>)]
      [] x = "doctype" -> IF Context = <<>> THEN parser ELSE Refused
      [] OTHER -> Refused

\* process, after the last token.
IsComplete_InBody(p) == p.ancestors = <<>> /\ p.visitedBody /\ p.lang /\ p.title

IsComplete(p) == p.ancestors = <<>> /\ ~p.inBody /\ p.visitedBody /\ p.lang /\ p.title

-----------------------------------------------------------------------------
(* main.                                                                   *)

Init ==
    /\ pc = "parse"
    /\ todo = Locales /\ locale = Default
    /\ parser = NewParser
    /\ allAssets = {}
    /\ pages = [l \in {} |-> {}]
    /\ copied = {} /\ listed = {}

\* An exception ends the script, and what it has in memory with it.
Raise(why) ==
    /\ pc' = why
    /\ parser' = NewParser /\ locale' = Default /\ allAssets' = {}
    /\ UNCHANGED <<todo, pages, copied, listed>>

\* The parser gets a token.
Feed(p) ==
    /\ pc = "parse"
    /\ IF p = Refused THEN Raise("refused")
       ELSE parser' = p /\ UNCHANGED <<pc, todo, locale, allAssets, pages, copied, listed>>

StartTag ==
    \E t \in StartTags :
        /\ t.closed \/ t.tag \in VoidTags \/ Len(parser.ancestors) < MaxDepth
        /\ Feed(AfterStart(t))

EndTag == \E tag \in {t.tag : t \in StartTags} \ VoidTags : Feed(AfterEnd(tag))

Text == \E x \in Texts : Feed(AfterText(x))

\* The page is written, then the next locale is taken, in the order of listdir.
WritePage ==
    /\ allAssets' = With(allAssets, parser.assets)
    /\ pages' = [l \in DOMAIN pages \cup {locale} |->
                    IF l = locale THEN parser.body.assets ELSE pages[l]]
    /\ todo' = todo \ {locale}
    /\ IF todo' = {} THEN pc' = "copy" /\ UNCHANGED locale ELSE pc' = "parse" /\ locale' \in todo'
    /\ parser' = NewParser
    /\ UNCHANGED <<copied, listed>>

EndOfFile ==
    /\ pc = "parse"
    /\ CASE ~IsComplete(parser) -> Raise("incomplete")
         [] IsComplete(parser) /\ ~(parser.hrefs \subseteq parser.ids) -> Raise("missing")
         [] OTHER -> IF \E a \in parser.assets : Collides(allAssets, a)
                        THEN Raise("collision") ELSE WritePage

CopyAsset ==
    /\ pc = "copy"
    /\ \E a \in allAssets \ copied : copied' = copied \cup {a}
    /\ UNCHANGED <<pc, todo, locale, parser, allAssets, pages, listed>>

WriteLocales ==
    /\ pc = "copy" /\ allAssets \subseteq copied
    /\ listed' = Locales
    /\ pc' = "done"
    /\ UNCHANGED <<todo, locale, parser, allAssets, pages, copied>>

Next == StartTag \/ EndTag \/ Text \/ EndOfFile \/ CopyAsset \/ WriteLocales

Spec == Init /\ [][Next]_vars

-----------------------------------------------------------------------------
ParserType(p) ==
    /\ p.ancestors \in Seq([tag : STRING, page : Ids])
    /\ {p.inBody, p.visitedBody, p.lang, p.title} \subseteq BOOLEAN

\* Types; what is copied or collected has the name that its path is given.
TypeOK ==
    /\ pc \in {"parse", "copy", "done", "refused", "incomplete", "missing", "collision"}
    /\ todo \subseteq Locales /\ locale \in Locales
    /\ ParserType(parser)
    /\ allAssets \subseteq {<<AssetName[p], p>> : p \in DOMAIN AssetName}
    /\ DOMAIN pages = Locales \ todo
    /\ copied \subseteq allAssets
    /\ listed \in {{}, Locales}

\* What is written for a locale is one body element, closed, with nothing of it out of
\* place and no id twice, for a document of any length with whatever tags open and
\* close in it (self-closing, void, repeated or missing ones, a body that closes itself).
PagesAreWhole == [][pages' # pages => IsWhole(parser.body)]_vars

\* The section that a link of the manual leads to online: a heading's id is the one of
\* its page and its own, and the page of a path is the path below the manual's.
PageOf(path) ==
    IF path = <<TopPage>> THEN TopId
    ELSE IF path[1] = TopPage THEN <<Tail(path)>> ELSE <<path>>

SectionOf(link) == IF link.to = "id" THEN link.id ELSE PageOf(link.path) \o link.id

\* Each internal link of a page that is written leads to the section it leads to
\* online, which is in the page.
LinksLeadToTheirSections ==
    [][pages' # pages => \A l \in parser.body.links :
            l[2] = SectionOf(l[1]) /\ l[2] \in parser.body.ids]_vars

\* A document is refused at its end only for a section it does not have, or for a link
\* to a section of the top page, whose prefix _convert_relative_href takes away.
RefusedForMissingSections ==
    [][pc = "parse" /\ pc' = "missing" => \E l \in parser.body.links :
            \/ SectionOf(l[1]) \notin parser.body.ids
            \/ l[1].path = <<TopPage>> /\ l[1].id # NoId]_vars

\* The browser lists a locale only if its page is there, with the very files that it
\* means by the names it uses, though the locales share the names and any of them
\* may be refused after others are written.
ListedAreComplete ==
    \A l \in listed : l \in DOMAIN pages /\ pages[l] \subseteq copied
=============================================================================
