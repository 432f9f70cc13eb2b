------------------------------- MODULE Chunker -------------------------------
(***************************************************************************)
(* From a document to the pieces that are embedded and to the sections     *)
(* that are analysed: the text a PDF's pages give, its sections, tables    *)
(* and overlapping chunks, and the page each chunk is said to be from.     *)
(*                                                                         *)
(* A line is what it is (heading, table row, page marker, words, two       *)
(* sentences, blank) and a length; a text is a sequence of units, each a   *)
(* place <<line, position>> of the document or white space.                *)
(***************************************************************************)
EXTENDS Integers, Sequences, SequencesExt, FiniteSetsExt, Places

CONSTANTS
    Bodies,          \* the text a page may have, as sequences of lines
    TableRows,       \* the rows of a page's table, 0: it has none
    Sizes, Overlaps, \* chunk_size and overlap of a call
    Reach,           \* how far back a sentence's end is looked for
    MinChars,        \* _MIN_CHUNK_CHARS
    SectionChars,    \* ANALYSIS_SECTION_CHARS
    MaxPages         \* bound

VARIABLES
    source,          \* "text": ingested as it is; else the PDF parser at work
    size, overlap,
    pages            \* [body, rows, broken]: broken when extract_tables raises;
                     \* a text that is no PDF is the bodies only

vars == <<source, size, overlap, pages>>

Line(kind, len) == [kind |-> kind, len |-> len, page |-> 0]
Blank == Line("blank", 0)

\* Its text, what stays of it when the tables of the page cannot be read, and
\* its tables with their captions: "[Table 1, Page 2]".
PageText(i) ==
    LET unbound == \A j \in 1 .. i : pages[j].broken    \* raw_tables has no value yet
        table   == <<Blank, Line("word", 1)>> \o [r \in 1 .. pages[i].rows |-> Line("row", 1)]
        body    == IF source = "pdfplumber" /\ unbound THEN <<>> ELSE pages[i].body
    IN  IF source # "pdfplumber" \/ pages[i].broken \/ pages[i].rows = 0 THEN body ELSE body \o table

\* _build_full_text: a page without content leaves no marker.
FullText ==
    LET marker(i) == <<[kind |-> "page", len |-> 1, page |-> i]>>
        parts == [i \in DOMAIN pages |->
                     IF PageText(i) = <<>> THEN <<>> ELSE <<Blank>> \o marker(i) \o PageText(i)]
    IN  IF source = "text" THEN FlattenSeq([i \in DOMAIN pages |-> pages[i].body])
        ELSE LET all == FlattenSeq(parts) IN IF all = <<>> THEN <<>> ELSE Tail(all)

-----------------------------------------------------------------------------
(* Texts as sequences of units.                                            *)

Space == <<0, 0>>
UnitsOf(ls, l) == [k \in 1 .. ls[l].len |-> <<l, k>>]

\* "\n".join of the lines of ls with these numbers.
Joined(ls, numbers) ==
    LET all == FlattenSeq([i \in DOMAIN numbers |-> <<Space>> \o UnitsOf(ls, numbers[i])])
    IN  IF all = <<>> THEN <<>> ELSE Tail(all)

Strip(s) ==
    LET kept == { i \in DOMAIN s : s[i] # Space }
    IN  IF kept = {} THEN <<>> ELSE SubSeq(s, Min(kept), Max(kept))

IsMarker(ls, u) == u # Space /\ ls[u[1]].kind = "page"
EndsSentence(ls, u) == u # Space /\ ls[u[1]].kind = "stop" /\ u[2] = 2

\* _find_sentence_boundary in s[from .. to]: the last unit that belongs to the
\* chunk, or 0.  Paragraphs go before lines, lines before sentences.
Boundary(ls, s, from, to) ==
    LET paragraphs == { i + 1 : i \in { i \in from .. to - 1 : s[i] = Space /\ s[i + 1] = Space } }
        newlines   == { i \in from .. to : s[i] = Space }
        stops      == { i \in from + 1 .. to : EndsSentence(ls, s[i]) }
    IN  IF paragraphs # {} THEN Max(paragraphs)
        ELSE IF newlines # {} THEN Max(newlines)
        ELSE IF stops # {} THEN Max(stops) ELSE 0

\* The loop of _split_text_block, from a place in the text to its end.
Pieces(ls, s) ==
    LET from[start \in 1 .. Len(s) + 1] ==
            LET end  == start + size - 1
                last == Boundary(ls, s, Max({start, start + size - Reach}), end)
                cut  == IF last = 0 THEN end ELSE last
            IN  IF start + size > Len(s) THEN <<Strip(SubSeq(s, start, Len(s)))>>
                ELSE <<Strip(SubSeq(s, start, cut))>> \o from[Max({cut - overlap, start}) + 1]
    IN  from[1]

Nonempty(q) == Taken(q, { i \in DOMAIN q : q[i] # <<>> })

Split(ls, s) == Nonempty(IF Len(s) <= size THEN <<s>> ELSE Pieces(ls, s))

\* _split_into_sections: the numbers of the lines of each section, stripped.
Sections(ls) ==
    LET starts == Ordered({ l \in DOMAIN ls : l = 1 \/ ls[l].kind = "head" })
        upto(i) == IF i = Len(starts) THEN Len(ls) ELSE starts[i + 1] - 1
        content(i) == { l \in starts[i] .. upto(i) : ls[l].kind # "blank" }
        lines(i) == IF content(i) = {} THEN <<>>
                    ELSE [k \in 1 .. Max(content(i)) - Min(content(i)) + 1 |-> Min(content(i)) + k - 1]
    IN  Nonempty([i \in DOMAIN starts |-> lines(i)])

\* Whether the i-th line of a section is in a table: after a row, with rows and
\* blank lines only in between.
InTable(ls, sec, i) ==
    \E j \in 1 .. i : /\ ls[sec[j]].kind = "row"
                      /\ \A k \in j .. i : ls[sec[k]].kind \in {"row", "blank"}

\* _extract_table_blocks: the first and last line of each.
Tables(ls, sec) ==
    LET first == Ordered({ i \in DOMAIN sec : InTable(ls, sec, i) /\ (i = 1 \/ ~InTable(ls, sec, i - 1)) })
        last(i) == Max({ k \in i .. Len(sec) : \A j \in i .. k : InTable(ls, sec, j) })
    IN  [n \in DOMAIN first |-> <<first[n], last(first[n])>>]

-----------------------------------------------------------------------------
(* prepare_chunks.                                                         *)

Numbers(from, to) == [k \in 1 .. to - from + 1 |-> from + k - 1]

\* _offset_to_page, on the markers' offsets in the full text.
PageAt(ls, offset) ==
    LET before(l) == IF l = 1 THEN 0 ELSE Len(Joined(ls, Numbers(1, l - 1))) + 1
        passed == { l \in DOMAIN ls : ls[l].kind = "page" /\ before(l) <= offset }
    IN  IF passed = {} THEN 1 ELSE ls[Max(passed)].page

Chunk(text, page, table) == [text |-> text, first |-> page, last |-> page, table |-> table]

\* The tables of a section, then its text; offset is about where it starts.
SectionChunks(ls, sec, offset) ==
    LET blocks == Tables(ls, sec)
        table(b) == LET before == Joined(ls, SubSeq(sec, 1, b[1] - 1))
                    IN  Chunk(Strip(Joined(ls, SubSeq(sec, b[1], b[2]))), PageAt(ls, offset + Len(before)), TRUE)
        rest == Taken(sec, { i \in DOMAIN sec : ~InTable(ls, sec, i) })
        pieces == Split(ls, Strip(Joined(ls, rest)))
        marks(p) == { i \in DOMAIN p : IsMarker(ls, p[i]) }
        page(p) == IF marks(p) # {} THEN ls[p[Min(marks(p))][1]].page ELSE PageAt(ls, offset)
    IN  [n \in DOMAIN blocks |-> table(blocks[n])]
        \o [n \in DOMAIN pieces |-> Chunk(pieces[n], page(pieces[n]), FALSE)]

RawChunks(ls) ==
    LET secs == Sections(ls)
        start[n \in 1 .. Len(secs) + 1] ==
            IF n = 1 THEN 0 ELSE start[n - 1] + Len(Joined(ls, secs[n - 1])) + 1
    IN  FlattenSeq([n \in DOMAIN secs |-> SectionChunks(ls, secs[n], start[n])])

\* What a chunk is without the page markers in it.
Unmarked(ls, s) == Strip(Taken(s, { i \in DOMAIN s : ~IsMarker(ls, s[i]) }))

\* A variant of Merge that drops what is too small to be stored.
MergeOrDrop(ls, done, chunk) ==
    LET text == Unmarked(ls, chunk.text)
    IN  IF text = <<>> \/ (~chunk.table /\ Len(text) < MinChars) THEN done
        ELSE Append(done, [chunk EXCEPT !.text = text])

\* Markers go, and a small piece of text joins the chunk before it.  The last
\* chunk of done is the one the code has pending.
Merge(ls, done, chunk) ==
    LET text == Unmarked(ls, chunk.text)
        n == Len(done)
        joined == [done[n] EXCEPT !.text = @ \o <<Space>> \o text, !.last = chunk.last]
    IN  IF text = <<>> THEN done
        ELSE IF ~chunk.table /\ Len(text) < MinChars /\ n > 0 THEN [done EXCEPT ![n] = joined]
             ELSE Append(done, [chunk EXCEPT !.text = text])

Chunks(ls) == FoldLeft(LAMBDA done, c : Merge(ls, done, c), <<>>, RawChunks(ls))

-----------------------------------------------------------------------------
(* The sections of analyse_document.                                       *)

Parts(s) ==
    LET from[done \in 0 .. Len(s)] ==
            LET rest   == SubSeq(s, done + 1, Len(s))
                breaks == { i \in 1 .. SectionChars - 1 : rest[i] = Space /\ rest[i + 1] = Space }
                far == breaks # {} /\ Max(breaks) - 1 > SectionChars \div 2
                cut == IF far THEN Max(breaks) - 1 ELSE SectionChars
            IN  IF Len(rest) <= SectionChars THEN <<rest>>
                ELSE <<SubSeq(rest, 1, cut)>> \o from[done + cut]
    IN  from[0]

-----------------------------------------------------------------------------
Init ==
    /\ source \in {"text", "pdfplumber", "pypdf"} /\ pages = <<>>
    /\ size \in Sizes /\ overlap \in Overlaps

\* A document with one page more.
Page(body, rows, broken) ==
    /\ Len(pages) < MaxPages
    /\ source = "pdfplumber" \/ (rows = 0 /\ ~broken)
    /\ pages' = Append(pages, [body |-> body, rows |-> rows, broken |-> broken])
    /\ UNCHANGED <<source, size, overlap>>

Next == \E body \in Bodies, rows \in TableRows, broken \in BOOLEAN : Page(body, rows, broken)

Spec == Init /\ [][Next]_vars

-----------------------------------------------------------------------------
Flat(ls) == Joined(ls, Numbers(1, Len(ls)))

(* No line is lost between the document and the store, whatever the chunk  *)
(* size and overlap, however small the piece: every unit but the page      *)
(* markers is in a chunk (prepare_chunks).                                 *)
EverythingChunked ==
    pages # <<>> =>
        LET ls == FullText
            chunked == UNION { ToSet(c.text) : c \in ToSet(Chunks(ls)) }
        IN  \A u \in ToSet(Flat(ls)) : u = Space \/ IsMarker(ls, u) \/ u \in chunked

(* "They are never split mid-row": rows that follow one another in a       *)
(* section are in the same chunk (_extract_table_blocks).                  *)
TablesWhole ==
    pages # <<>> =>
        LET ls == FullText
            chunks == ToSet(Chunks(ls))
        IN  \A l \in 1 .. Len(ls) - 1 :
                ls[l].kind = "row" /\ ls[l + 1].kind = "row" =>
                    \E c \in chunks : {<<l, 1>>, <<l + 1, 1>>} \subseteq ToSet(c.text)

(* The analysis reads the whole text once, in order, in sections that fit  *)
(* (analyse_document).                                                     *)
AnalysedOnce ==
    pages # <<>> => /\ FlattenSeq(Parts(Flat(FullText))) = Flat(FullText)
                    /\ \A p \in ToSet(Parts(Flat(FullText))) : Len(p) <= SectionChars

(* "Every chunk carries the page number(s) it was drawn from"              *)
(* (chunker.py:12), but the page is that of its section's beginning, or of *)
(* the first marker in it.                                                 *)
PageOfItsText ==
    pages # <<>> =>
        LET ls == FullText
            pageOf(l) == LET m == { k \in 1 .. l : ls[k].kind = "page" }
                         IN  IF m = {} THEN 1 ELSE ls[Max(m)].page
        IN  \A c \in ToSet(Chunks(ls)) : \A u \in ToSet(c.text) :
                u # Space => pageOf(u[1]) \in c.first .. c.last

(* A document's text reaches store and analysis undivided.                 *)
TextKept == EverythingChunked /\ TablesWhole /\ AnalysedOnce
=============================================================================
