------------------------------- MODULE Fonts -------------------------------
(***************************************************************************)
(* The font manager of src/src/kernel/src/io/fonts/font.rs: the table      *)
(* FontManager::init builds, FontDescriptor, FixedFontDriver, and the      *)
(* HersheyFont driver, whose constructor indexes the glyph records of a    *)
(* font file and whose draw_data walks the strokes of one record.         *)
(*                                                                         *)
(* Font data is a sequence of naturals below 256; byte k of the code is    *)
(* element k + 1.  A glyph record is the bytes from its start up to the    *)
(* next byte below 0x20; bytes 6 and 7 of a record hold the pair count as  *)
(* two digits, bytes 8 and 9 the left and right edges, and the vertex      *)
(* pairs follow from byte 10, " R" lifting the pen.  Rendering pixels      *)
(* into the shared buffer and blending it onto the bitmap is abstracted:   *)
(* draw_data's result is the sequence of line segments it draws, in the    *)
(* buffer's coordinates.                                                  *)
(***************************************************************************)
EXTENDS Integers, Sequences, SequencesExt, TLC

\* HersheyFont::MAGIC_20, MAGIC_52, POINT and DESCENT.
MAGIC_20 == 32
MAGIC_52 == 82
POINT == 32
DESCENT == 2

\* Outcomes of a call that may panic; Some and None of an Option.
Panic == [kind |-> "panic"]
NoGlyph == [kind |-> "none"]

\* Integer division of isize, which truncates toward zero.
Quot(a, b) == IF (a < 0) = (b < 0) THEN a \div b ELSE -((-a) \div b)

----------------------------------------------------------------------------
(***************************************************************************)
(* HersheyFont::new and search_for_glyph.                                 *)
(***************************************************************************)
\* The inner `while self.data[cursor] >= 0x20 { cursor += 1 }`: the index
\* of the byte ending the record at cursor, or -1 when the loop indexes
\* past the end of the data (a panic).
RECURSIVE RecordEnd(_, _)
RecordEnd(data, cursor) ==
    IF cursor >= Len(data) THEN -1
    ELSE IF data[cursor + 1] < MAGIC_20 THEN cursor
    ELSE RecordEnd(data, cursor + 1)

\* Mutant: the walk does not stop at the end of the data.
RECURSIVE SearchFromPastEnd(_, _, _, _)
SearchFromPastEnd(data, c, current, cursor) ==
    LET end == RecordEnd(data, cursor)
    IN  IF end = -1 THEN Panic
        ELSE IF current = c THEN [kind |-> "some", base |-> cursor, last |-> end]
        ELSE SearchFromPastEnd(data, c, current + 1, end + 1)

\* The `for current in 0..96` loop looking for record c, at cursor.
RECURSIVE SearchFrom(_, _, _, _)
SearchFrom(data, c, current, cursor) ==
    IF Len(data) <= cursor THEN NoGlyph
    ELSE LET end == RecordEnd(data, cursor)
         IN  IF end = -1 THEN Panic
             ELSE IF current = c THEN [kind |-> "some", base |-> cursor, last |-> end]
             ELSE SearchFrom(data, c, current + 1, end + 1)

search_for_glyph(data, character) ==
    IF character >= 32 /\ character < 128
    THEN SearchFrom(data, character - 32, 0, 0)
    ELSE NoGlyph

\* The constructor's loop over 0x20..0x80: it stops at the first character
\* search_for_glyph has no record for, and reads bytes 8 and 9 of each
\* record (a panic when the record is shorter than ten bytes).  The loop is
\* written as the first character it stops at; G[k] is the search for
\* character 0x1F + k.
HersheyNew(extraHeight, data) ==
    LET G == <<>> \o [k \in 1..96 |-> search_for_glyph(data, 31 + k)]
        Stops(k) == G[k].kind /= "some" \/ G[k].last - G[k].base < 10
        stop == CHOOSE k \in 1..97 :
                    (k = 97 \/ Stops(k)) /\ \A e \in 1..(k - 1) : ~Stops(e)
    IN  IF stop < 97 /\ G[stop].kind /= "none" THEN Panic
        ELSE [kind |-> "ok", scalable |-> TRUE, data |-> data,
              lineHeight |-> POINT + DESCENT + extraHeight,
              glyphInfo |-> <<>> \o [i \in 1..(stop - 1) |->
                               <<G[i].base, G[i].last,
                                 data[G[i].base + 10] - data[G[i].base + 9]>>]]

\* HersheyFont::glyph_for: `character as usize - 0x20` underflows below
\* 0x20, a panic in a debug build and a wrap past every index in release.
HersheyGlyphFor(font, character) ==
    LET i == character - 32
    IN  IF i < 0 THEN {Panic, NoGlyph}
        ELSE IF i < 96 /\ i < Len(font.glyphInfo)
        THEN {[kind |-> "some", info |-> font.glyphInfo[i + 1]]}
        ELSE {NoGlyph}

\* HersheyFont::width_of.
Width(w) == [kind |-> "ok", width |-> w]

HersheyWidthOf(font, character) ==
    {CASE g.kind = "some" -> Width(g.info[3]) [] g.kind = "none" -> Width(0) [] OTHER -> Panic
        : g \in HersheyGlyphFor(font, character)}

----------------------------------------------------------------------------
(***************************************************************************)
(* HersheyFont::draw_data: the strokes of one record.  The shared buffer  *)
(* is 96 by 96, so its centre is (47, 47).                                *)
(***************************************************************************)
Centre == <<47, 47>>

\* A vertex pair (c1, c2) scaled to height around the centre.
Vertex(c1, c2, height) ==
    <<Centre[1] + Quot((c1 - MAGIC_52) * 2 * height, POINT),
      Centre[2] + Quot((c2 - MAGIC_52) * 2 * height, POINT)>>

\* Mutant: " R" does not lift the pen (c0 is kept).
RECURSIVE StrokesPenKept(_, _, _, _, _, _)
StrokesPenKept(data, height, left, cursor, c0, segs) ==
    IF left = 0 THEN [kind |-> "ok", segs |-> segs]
    ELSE IF cursor + 1 >= Len(data) THEN Panic
    ELSE LET c1 == data[cursor + 1]
             c2 == data[cursor + 2]
         IN  IF c1 = MAGIC_20 /\ c2 = MAGIC_52
             THEN StrokesPenKept(data, height, left - 1, cursor + 2, c0, segs)
             ELSE LET p == Vertex(c1, c2, height)
                  IN  StrokesPenKept(data, height, left - 1, cursor + 2, <<p>>,
                              IF c0 = <<>> THEN segs ELSE Append(segs, <<c0[1], p>>))

\* `for _ in 1..n_pairs`: the pair at cursor, the pen position c0 (<<>>
\* when lifted) and the segments drawn so far.
RECURSIVE Strokes(_, _, _, _, _, _)
Strokes(data, height, left, cursor, c0, segs) ==
    IF left = 0 THEN [kind |-> "ok", segs |-> segs]
    ELSE IF cursor + 1 >= Len(data) THEN Panic
    ELSE LET c1 == data[cursor + 1]
             c2 == data[cursor + 2]
         IN  IF c1 = MAGIC_20 /\ c2 = MAGIC_52
             THEN Strokes(data, height, left - 1, cursor + 2, <<>>, segs)
             ELSE LET p == Vertex(c1, c2, height)
                  IN  Strokes(data, height, left - 1, cursor + 2, <<p>>,
                              IF c0 = <<>> THEN segs ELSE Append(segs, <<c0[1], p>>))

\* Records shorter than 12 bytes draw nothing; n_pairs is read from the
\* low nibbles of bytes 6 and 7.
draw_data(data, height) ==
    IF Len(data) < 12 THEN [kind |-> "ok", segs |-> <<>>]
    ELSE LET nPairs == (data[7] % 16) * 10 + (data[8] % 16)
         IN  Strokes(data, height, IF nPairs > 1 THEN nPairs - 1 ELSE 0, 10, <<>>, <<>>)

\* HersheyFont::draw_char: the glyph's bytes base..last, drawn at point.
HersheyDrawChar(font, character, point) ==
    {IF g.kind = "some"
     THEN draw_data(SubSeq(font.data, g.info[1] + 1, g.info[2]), point)
     ELSE IF g.kind = "none" THEN [kind |-> "ok", segs |-> <<>>] ELSE Panic
        : g \in HersheyGlyphFor(font, character)}

----------------------------------------------------------------------------
(***************************************************************************)
(* FixedFontDriver, FontManager and FontDescriptor.                       *)
(***************************************************************************)
FixedFontNew(width, height) ==
    LET lineHeight == (height * 5) \div 4
    IN  [kind |-> "ok", scalable |-> FALSE, width |-> width, height |-> height,
         lineHeight |-> lineHeight, leading |-> (lineHeight - height) \div 2,
         stride |-> ((width + 7) \div 8) * height]

\* FontDriver::base_height of either driver.
BaseHeight(d) == IF d.scalable THEN POINT ELSE d.height

\* FontManager::init: the four Hershey files are not in the repository, so
\* their bytes are the parameter hershey, a function of the family.  A
\* constructor that panics panics init.
FontManagerInit(hershey) ==
    LET fonts == ("FixedSystem" :> FixedFontNew(8, 16))
                 @@ ("SmallFixed" :> FixedFontNew(6, 8))
                 @@ ("SystemUI" :> HersheyNew(0, hershey["SystemUI"]))
                 @@ ("Cursive" :> HersheyNew(4, hershey["Cursive"]))
                 @@ ("SansSerif" :> HersheyNew(0, hershey["SansSerif"]))
                 @@ ("Serif" :> HersheyNew(0, hershey["Serif"]))
    IN  IF \E f \in DOMAIN fonts : fonts[f].kind = "panic" THEN Panic
        ELSE [kind |-> "ok", fonts |-> fonts]

\* FontDescriptor::new through FontManager::driver_for; fonts is <<>> until
\* init has run.  The result is <<>> for None, <<d>> for Some(d).
FontDescriptorNew(fonts, family, point) ==
    IF fonts = <<>> \/ family \notin DOMAIN fonts[1] THEN <<>>
    ELSE LET d == fonts[1][family]
         IN  <<IF d.scalable
               THEN [driver |-> d, point |-> point,
                     lineHeight |-> Quot(d.lineHeight * point, POINT)]
               ELSE [driver |-> d, point |-> d.height, lineHeight |-> d.lineHeight]>>

\* FontManager::system_font, title_font and label_font: unwrap panics
\* before init, and unwrap_or evaluates its argument, the system font,
\* before it looks at the Option.
SystemFont(fonts) ==
    LET d == FontDescriptorNew(fonts, "FixedSystem", 0)
    IN  IF d = <<>> THEN Panic ELSE d[1]

FallbackFont(fonts, family) ==
    LET s == SystemFont(fonts)
        d == FontDescriptorNew(fonts, family, 16)
    IN  IF s = Panic THEN Panic ELSE IF d = <<>> THEN s ELSE d[1]

TitleFont(fonts) == FallbackFont(fonts, "SansSerif")

LabelFont(fonts) == FallbackFont(fonts, "SystemUI")

\* FontDescriptor::draw_char, for a Hershey driver.
DescriptorDrawChar(fd, character) ==
    HersheyDrawChar(fd.driver, character, fd.point)

----------------------------------------------------------------------------
(***************************************************************************)
(* References.  Records are delimited by the positions of the bytes below *)
(* 0x20, in order; record k starts one past separator k (at 0 for the       *)
(* first) and ends at separator k + 1.                                    *)
(***************************************************************************)
Separators(data) ==
    SelectSeq([i \in 1..Len(data) |-> i - 1], LAMBDA i : data[i + 1] < MAGIC_20)

RecordStart(seps, k) == IF k = 0 THEN 0 ELSE seps[k] + 1

\* Records that start inside the data, among the first 96.
Records(data) ==
    LET seps == Separators(data)
    IN  {k \in 0..95 : k <= Len(seps) /\ RecordStart(seps, k) < Len(data)}

\* A record the constructor cannot index: unterminated, or shorter than
\* the ten bytes whose edges it reads.
Malformed(data) ==
    LET seps == Separators(data)
    IN  \E k \in Records(data) :
            k = Len(seps) \/ seps[k + 1] - RecordStart(seps, k) < 10

GlyphTable(data) ==
    LET seps == Separators(data)
    IN  [i \in 1..Cardinality(Records(data)) |->
            LET s == RecordStart(seps, i - 1)
            IN  <<s, seps[i], data[s + 10] - data[s + 9]>>]

\* The segments of a record: consecutive vertices with no pen lift
\* between them, each scaled to height.
Segments(rec, height) ==
    LET n  == (rec[7] - 48) * 10 + (rec[8] - 48)
        V  == [i \in 1..(n - 1) |-> <<rec[9 + 2 * i], rec[10 + 2 * i]>>]
        Up(i) == V[i] = <<MAGIC_20, MAGIC_52>>
        Joined == SelectSeq([i \in 1..(n - 2) |-> i], LAMBDA i : ~Up(i) /\ ~Up(i + 1))
        Off(c) == IF c < MAGIC_52 THEN -((2 * height * (MAGIC_52 - c)) \div POINT)
                  ELSE (2 * height * (c - MAGIC_52)) \div POINT
        Scale(v) == <<Centre[1] + Off(v[1]), Centre[2] + Off(v[2])>>
    IN  [j \in 1..Len(Joined) |-> <<Scale(V[Joined[j]]), Scale(V[Joined[j] + 1])>>]
====
