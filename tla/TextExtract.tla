----------------------------- MODULE TextExtract -----------------------------
(***************************************************************************)
(* The extraction by regular expressions (src/utils/text_extract.rs) that  *)
(* stands in when rs-trafilatura gives nothing, and clean_title.  A page   *)
(* is a sequence of tags and pieces of text; a title a sequence of words   *)
(* and separators.                                                         *)
(*                                                                         *)
(* A replacement takes tokens away or replaces them one by one, so what is *)
(* left of a page is the set of its positions that are left.               *)
(***************************************************************************)
EXTENDS Integers, FiniteSets, SequencesExt

Open(tag) == [kind |-> "open", name |-> tag]
Close(tag) == [kind |-> "close", name |-> tag]
Text(piece) == [kind |-> "text", name |-> piece]

\* Of each list of the code some members, in the order they are replaced
RegionTags == <<"article", "main", "body">>
StripTags == <<"script", "nav", "header", "aside", "img">>
BlockTags == {"p", "div", "br", "li", "tr"}
InlineTags == {"span", "a", "em"}

-----------------------------------------------------------------------------
(* extract_content_region.                                                 *)

\* The regex of a region is greedy: from the first opening tag to the last closing one
From(page, tag) == SelectInSeq(page, LAMBDA t : t = Open(tag))
To(page, tag) == SelectLastInSeq(page, LAMBDA t : t = Close(tag))

RegionTag(page) ==
    SelectInSeq(RegionTags, LAMBDA tag : From(page, tag) # 0 /\ From(page, tag) < To(page, tag))

\* The indices of the region: the first kind of region there is, or the page
RegionOf(page) ==
    LET r == RegionTag(page) IN
    IF r = 0 THEN 1 .. Len(page) ELSE From(page, RegionTags[r]) .. To(page, RegionTags[r])

-----------------------------------------------------------------------------
(* The replacements, one after the other.                                  *)

\* c is the first closing tag that is left behind an opening one at o
IsFirstClose(page, left, tag, o, c) ==
    o < c /\ page[c] = Close(tag) /\ \A b \in left : o < b /\ b < c => page[b] # Close(tag)

\* Mutant: an element that is never closed is cut to the end
StripTagToEnd(page, left, tag) ==
    {i \in left : \A o \in left :
        page[o] = Open(tag) /\ o <= i =>
            o # i /\ \E b \in left : o < b /\ b < i /\ page[b] = Close(tag)}

\* Mutant: only the tags are cut
StripTagOnly(page, left, tag) == {i \in left : page[i] \notin {Open(tag), Close(tag)}}

\* Cut each element from its opening tag to the first closing one, or the tag alone
\* if none follows; a closing tag without an opening one is left.  An opening tag
\* inside a cut has the same first closing tag
StripTag(page, left, tag) ==
    {i \in left : \A o \in left :
        page[o] = Open(tag) =>
            i # o /\ \A c \in left : IsFirstClose(page, left, tag, o, c) => i \notin o .. c}

\* What is left of the region when the first k kinds of elements are stripped
StripNonContent(page) ==
    LET left[k \in 0 .. Len(StripTags)] ==
            IF k = 0 THEN RegionOf(page) ELSE StripTag(page, left[k - 1], StripTags[k])
    IN  left

\* Block tags become newlines and inline tags spaces; other tags leave nothing.  Of
\* the entities only the space matters here
TextOf(token) ==
    CASE token.kind = "text" -> IF token.name = "&nbsp;" THEN " " ELSE token.name
      [] token.kind # "text" /\ token.name \in BlockTags -> "\n"
      [] token.kind # "text" /\ token.name \in InlineTags -> " "
      [] OTHER -> ""

\* extract_text, by the positions of the page; white space is collapsed, which no
\* property tells apart
ExtractText(page) == [i \in StripNonContent(page)[Len(StripTags)] |-> TextOf(page[i])]

IsBlank(piece) == piece \in {"", " ", "\n"}

Words(text) == Restrict(text, {i \in DOMAIN text : ~IsBlank(text[i])})

-----------------------------------------------------------------------------
(* clean_title.                                                            *)

\* The two long dashes are as these three
Separators == <<" - ", " | ", " :: ">>

\* Mutant: the first part is kept
CleanTitleFirst(title) ==
    LET s == SelectInSeq(Separators, LAMBDA sep : Contains(title, sep)) IN
    IF s = 0 THEN title
    ELSE SubSeq(title, 1, SelectInSeq(title, LAMBDA w : w = Separators[s]) - 1)

\* The longest part between separators of the first kind there is, the last of
\* several.  All words count as equally long
CleanTitle(title) ==
    LET s == SelectInSeq(Separators, LAMBDA sep : Contains(title, sep))
        ends == {i \in DOMAIN title : title[i] = Separators[s]}
        starts == {0} \cup ends
        end(i) == SelectInSubSeq(title, i + 1, Len(title), LAMBDA w : w = Separators[s])
        part(i) == SubSeq(title, i + 1, IF end(i) = 0 THEN Len(title) ELSE end(i) - 1)
        longest == {i \in starts : \A k \in starts : Len(part(k)) <= Len(part(i))}
    IN  IF s = 0 THEN title ELSE part(CHOOSE i \in longest : \A k \in longest : k <= i)

-----------------------------------------------------------------------------
(* The reference: pages whose elements are nested, and what a reader sees. *)

Element(tag, page) == <<Open(tag)>> \o page \o <<Close(tag)>>

\* The tags without an end, and the elements of a page that have one
Void == {"img", "br"}
Elements(page) == {o \in DOMAIN page : page[o].kind = "open" /\ page[o].name \notin Void}

\* The position where the element that begins at o ends: of its closing tag, behind as
\* many of its kind as begin in between
End(page, o) ==
    LET tag == page[o].name
        within(c, token) == Cardinality({j \in o + 1 .. c - 1 : page[j] = token})
        ends == {c \in o + 1 .. Len(page) :
                    page[c] = Close(tag) /\ within(c, Open(tag)) = within(c, Close(tag))}
    IN  IF ends = {} THEN 0 ELSE Min(ends)

\* Each element ends, within the elements it begins in, and no closing tag is left over
Nested(page) ==
    /\ page \in Seq([kind : {"open", "close", "text"}, name : STRING])
    /\ LET end == [o \in Elements(page) |-> End(page, o)] IN
       /\ \A o \in Elements(page) : end[o] # 0
       /\ \A o, p \in Elements(page) : o < p /\ p < end[o] => end[p] < end[o]
       /\ \A c \in DOMAIN page : page[c].kind = "close" => \E o \in Elements(page) : end[o] = c

\* The elements to strip; an image is none, as it holds nothing
Noise(page) == {o \in Elements(page) : page[o].name \in ToSet(StripTags)}

\* No element to strip holds one of its kind, and the region does not begin or end in one
Flat(page) ==
    \A o \in Noise(page) :
        /\ \A p \in Elements(page) : o < p /\ p < End(page, o) => page[p].name # page[o].name
        /\ o .. End(page, o) \subseteq RegionOf(page) \/ (o .. End(page, o)) \cap RegionOf(page) = {}

\* The words of the region outside the elements to strip
Visible(page) ==
    LET seen == {i \in RegionOf(page) :
                    /\ page[i].kind = "text" /\ page[i].name \notin {"", " ", "\n", "&nbsp;"}
                    /\ \A o \in Noise(page) : ~(o < i /\ i < End(page, o))}
    IN  [i \in seen |-> page[i].name]
=============================================================================
