--------------------------- MODULE MCManualPackage ---------------------------
(* Two locales whose documents have a page, headings, links of every kind   *)
(* and files of which some are the same, some differ by locale and two get  *)
(* the same name.                                                           *)
EXTENDS ManualPackage, TLC

Plain == [tag |-> "", closed |-> FALSE, lang |-> "", id |-> NoId, class |-> "", src |-> "",
          srcset |-> FALSE, href |-> NoLink]

Tag(tag) == [Plain EXCEPT !.tag = tag]
A(to, path, id) == [Tag("a") EXCEPT !.href = [to |-> to, path |-> path, id |-> id]]

Faq == << <<"faq">> >>
X == << <<"x">> >>

\* A document's frame, whose html has an id that is not part of the body.
Frame ==
    {[Tag("html") EXCEPT !.lang = l, !.id = Faq] : l \in {"en", "fr"}} \cup
    {Tag("head"), Tag("title"), Tag("body"), [Tag("body") EXCEPT !.closed = TRUE],
     [Tag("link") EXCEPT !.class = "stylesheet", !.src = "sheet"]}

Elements ==
    {[Tag("div") EXCEPT !.class = "olm-page", !.id = Faq],
     [Tag("div") EXCEPT !.class = "heading-anchor", !.id = X],
     [Tag("div") EXCEPT !.closed = TRUE, !.id = TopId],
     [Tag("input") EXCEPT !.class = "toggler", !.id = Faq \o X],
     [Tag("img") EXCEPT !.src = "logo"], [Tag("img") EXCEPT !.src = "gone"],
     [Tag("img") EXCEPT !.src = "logo", !.srcset = TRUE], Tag("hr"), [Tag("script") EXCEPT !.closed = TRUE]}

Links ==
    {A("path", <<TopPage, "faq">>, X), A("path", <<TopPage>>, NoId), A("path", <<TopPage>>, X),
     A("id", <<>>, Faq), A("path", <<"about">>, NoId), A("path", <<>>, NoId)}

SomeTags == Frame \cup Elements \cup {[l EXCEPT !.closed = TRUE] : l \in Links}

\* Each locale has a logo of its own; the English one and the stylesheet, which is the
\* same for both, get the same name.
TwoPaths == [l \in Locales |-> ("sheet" :> "lo~go") @@ ("logo" :> IF l = "en" THEN "lo*go" ELSE "logo")]
SafeNames == ("lo~go" :> "lo_go") @@ ("lo*go" :> "lo_go") @@ ("logo" :> "logo")

=============================================================================
