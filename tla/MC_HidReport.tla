---------------------------- MODULE MC_HidReport ----------------------------
(***************************************************************************)
(* The descriptors parse_report is checked on: every descriptor of up to  *)
(* three items, one application with a body of up to three items, and two *)
(* applications with bodies of up to two items each.                      *)
(***************************************************************************)
EXTENDS HidReport, HidBits, Fonts

\* Sequences of at most n items of S.
UpTo(S, n) == UNION {[1..m -> S] : m \in 0..n}

Alphabet ==
    {Item("App", 0), Item("Phys", 0), Item("End", 0), Item("Input", 0),
     Item("Output", 0), Item("Rid", 1), Item("Rid", 2), Item("Usage", 1),
     Item("Usage", 2), Item("Count", 3), Item("Push", 0), Item("Pop", 0)}

BodyItems ==
    {Item("Input", 0), Item("Rid", 1), Item("Rid", 2), Item("Usage", 1),
     Item("Usage", 2), Item("Count", 2), Item("Push", 0), Item("Pop", 0),
     Item("Phys", 0), Item("End", 0)}

ShortBody ==
    {Item("Input", 0), Item("Rid", 1), Item("Rid", 2), Item("Usage", 1)}

\* Report Count (3), Usage, Collection (Application), Report ID (r), the
\* body, End Collection.
OneApp(r, b) ==
    <<Item("Count", 3), Item("Usage", 1), Item("App", 0), Item("Rid", r)>>
        \o b \o <<Item("End", 0)>>

TwoApps(b1, b2) ==
    <<Item("App", 0), Item("Rid", 1)>> \o b1 \o <<Item("End", 0)>>
        \o <<Item("App", 0), Item("Rid", 2)>> \o b2 \o <<Item("End", 0)>>

MCDescriptors ==
    UpTo(Alphabet, 3)
        \cup {OneApp(r, b) : r \in {1, 2}, b \in UpTo(BodyItems, 3)}
        \cup {TwoApps(b1, b2) : b1, b2 \in UpTo(ShortBody, 2)}

----------------------------------------------------------------------------
(***************************************************************************)
(* The bit-field helpers and report walks are checked on three-byte       *)
(* buffers of mixed bit patterns, and on the applications parse_report    *)
(* gives for boot-protocol keyboards and mice and for report-id mice and  *)
(* tablets (one entry per usage, as ParsedReportMainItem::parse splits    *)
(* them), with 64-byte input buffers of distinct bytes.                   *)
(***************************************************************************)
MCBlobs == [1..3 -> {0, 165, 255, 129}]
MCFieldSizes == {1, 2, 3, 5, 7, 8, 9, 12, 16}

\* ParsedReportMainItem: kind, flags, report_size, report_count, usages and
\* logical maximum.
E(kind, const, var, rel, size, count, umin, umax, lmax) ==
    [kind |-> kind, const |-> const, var |-> var, rel |-> rel, size |-> size,
     count |-> count, umin |-> umin, umax |-> umax, lmax |-> lmax]

Pad(kind, bits) == E(kind, TRUE, FALSE, FALSE, bits, 1, "NONE", "NONE", 0)
Modifiers == E("Input", FALSE, TRUE, FALSE, 1, 8, "MOD_MIN", "MOD_MAX", 1)
Keys == E("Input", FALSE, FALSE, FALSE, 8, 6, "KEY", "NONE", 101)
Lamps(n) == E("Output", FALSE, TRUE, FALSE, 1, n, "LED", "LED", 1)
Buttons(n) == E("Input", FALSE, TRUE, FALSE, 1, n, "BUTTON_1", "NONE", 1)
Rel(u, size) == E("Input", FALSE, TRUE, TRUE, size, 1, u, "NONE", 2^(size - 1) - 1)
Abs(u, size) == E("Input", FALSE, TRUE, FALSE, size, 1, u, "NONE", 2^(size - 1) - 1)

MCLayouts ==
    {[usage |-> "KEYBOARD", hasId |-> FALSE,
      entries |-> <<Modifiers, Pad("Input", 8), Lamps(5), Pad("Output", 3), Keys>>],
     [usage |-> "KEYBOARD", hasId |-> FALSE,
      entries |-> <<Modifiers, Pad("Output", 3), Lamps(3), Pad("Output", 2), Keys>>],
     [usage |-> "KEYBOARD", hasId |-> TRUE,
      entries |-> <<Modifiers, Pad("Input", 8), Keys>>],
     [usage |-> "MOUSE", hasId |-> FALSE,
      entries |-> <<Buttons(3), Pad("Input", 5), Rel("X", 8), Rel("Y", 8), Rel("WHEEL", 8)>>],
     [usage |-> "MOUSE", hasId |-> TRUE,
      entries |-> <<Buttons(5), Pad("Input", 3), Rel("X", 12), Rel("Y", 12), Rel("WHEEL", 8)>>],
     [usage |-> "MOUSE", hasId |-> TRUE,
      entries |-> <<Buttons(3), Pad("Input", 5), Abs("X", 16), Abs("Y", 16)>>]}

MCReports ==
    {[k \in 1..64 |-> (37 * k + c) % 256] : c \in {0, 128}}
        \cup {[k \in 1..64 |-> 255]}

(***************************************************************************)
(* Properties of the report loop.  _usb_hid_task uses the helpers only     *)
(* after parse_report has returned Ok; each property is checked in every   *)
(* such state.                                                            *)
(***************************************************************************)
\* read_bits and read_bits_signed give the field at any bit position and
\* width that fits the buffer, and None otherwise, whatever byte follows the
\* buffer: the unchecked reads take one byte more than the field needs when
\* position & 7 + size is a multiple of 8.
ReadBitsExact == result = "ok" => ReadBitsCorrect

\* The keyboard LED flash lights exactly the LED fields of the Output report
\* in every outcome where write_bits does not panic: bit_position must skip
\* constant fields, and write_bits must place a one-bit field at any offset.
LedBitsExact == result = "ok" => LedBitsCorrect

\* Every keyboard and mouse input report is decoded into the fields its
\* application places in it: each entry is read at its offset after the
\* report id byte, relative axes sign-extended, constant fields skipped.
ReportDecoded == result = "ok" => ReportsCorrect
----------------------------------------------------------------------------
(***************************************************************************)
(* The font files FontManager::init includes are not in the repository;   *)
(* the Hershey driver is checked on font data built from glyph records:   *)
(* a well-formed font of five glyphs (no vertex, one vertex, two strokes  *)
(* with pen lifts in several places, eleven vertices whose count has a    *)
(* tens digit), the same font with CR LF line ends, without the final     *)
(* line end, with a short record appended, empty, and a font of 97        *)
(* records whose last, short one lies past the 96 the constructor reads.  *)
(***************************************************************************)
Up == <<MAGIC_20, MAGIC_52>>

\* A glyph record: number "00001", the two-digit pair count (the vertices
\* and the edge pair), the left and right edges, the vertices.
Rec(V, l, r) ==
    LET n == Len(V) + 1
    IN  <<48, 48, 48, 48, 49, 32, 48 + (n \div 10), 48 + (n % 10), l, r>> \o FlattenSeq(V)

Glyph0 == Rec(<<>>, 75, 89)
Glyph1 == Rec(<<<<70, 90>>>>, 77, 87)
Glyph2 == Rec(<<<<70, 90>>, <<82, 60>>, <<94, 90>>, Up, <<74, 79>>, <<90, 79>>>>, 71, 93)
Glyph3 == Rec(<<Up, <<75, 75>>, <<89, 75>>, Up, Up, <<82, 68>>, <<82, 97>>>>, 73, 91)
Glyph4 == Rec(<<<<71, 63>>, <<93, 63>>, <<93, 95>>, <<71, 95>>, <<71, 63>>, Up,
                <<79, 81>>, <<85, 81>>, <<85, 87>>, <<79, 87>>, <<79, 81>>>>, 70, 94)

Lines(G, eol) == FlattenSeq([i \in 1..Len(G) |-> G[i] \o eol])

FontGlyphs == <<Glyph0, Glyph2, Glyph3, Glyph4, Glyph1>>

MCFontData ==
    {Lines(FontGlyphs, <<10>>), Lines(FontGlyphs, <<13, 10>>),
     Lines(FontGlyphs, <<10>>) \o Glyph1,
     Lines(FontGlyphs, <<10>>) \o <<65, 66, 10>>,
     <<>>,
     Lines([i \in 1..96 |-> FontGlyphs[1 + (i % 5)]], <<10>>) \o <<65, 10>>}

MCPoints == {16, 21, 32, 45}

FontsOf(data) == FontManagerInit([f \in {"SystemUI", "Cursive", "SansSerif", "Serif"} |-> data])

GlyphTableCorrect ==
    \A data \in MCFontData :
        LET font  == HersheyNew(0, data)
            table == GlyphTable(data)
        IN  IF Malformed(data) THEN font = Panic
            ELSE /\ font /= Panic
                 /\ font.glyphInfo = table
                 /\ \A c \in 32..127 :
                        HersheyWidthOf(font, c)
                            = {Width(IF c - 32 < Len(table) THEN table[c - 31][3] ELSE 0)}

\* The well-formed font data with the fonts FontManager::init builds from
\* it and its reference glyph table.
MCInstalled ==
    {<<data, FontsOf(data), GlyphTable(data)>> : data \in {d \in MCFontData : ~Malformed(d)}}

\* The descriptors drawn with: the title and label fonts, and the two
\* Hershey families at every point of MCPoints.
DrawnWith(fonts) ==
    {TitleFont(<<fonts>>), LabelFont(<<fonts>>)}
        \cup {FontDescriptorNew(<<fonts>>, f, p)[1] : f \in {"SystemUI", "Cursive"}, p \in MCPoints}

StrokesCorrect ==
    \A inst \in MCInstalled :
        /\ inst[2] /= Panic
        /\ \A fd \in DrawnWith(inst[2].fonts), c \in 32..127 :
               DescriptorDrawChar(fd, c)
                   = {[kind |-> "ok",
                       segs |-> IF c - 32 < Len(inst[3])
                                THEN Segments(SubSeq(inst[1], inst[3][c - 31][1] + 1,
                                                     inst[3][c - 31][2]), fd.point)
                                ELSE <<>>]}

\* HersheyFont::new panics exactly on font data with an unterminated or
\* short record among the first 96, and otherwise indexes record k as the
\* glyph of character 0x20 + k, with the width its edge bytes give, up to
\* the first missing record: search_for_glyph's walk must skip one line
\* end per record and stop at the end of the data.
GlyphTableExact == pos \in Nat => GlyphTableCorrect

\* Drawing a character through a FontDescriptor of any point draws exactly
\* the segments between consecutive vertices of its glyph record that no
\* " R" separates, scaled to the point, and nothing for a character
\* without a glyph: draw_data must read the pair count from its two digits,
\* walk n_pairs - 1 pairs and lift the pen at every " R".
StrokesDrawn == pos \in Nat => StrokesCorrect
=============================================================================
