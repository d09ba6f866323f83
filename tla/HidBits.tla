------------------------------ MODULE HidBits ------------------------------
(***************************************************************************)
(* The bit-field side of src/system/kernel/src/bus/usb/drivers/usb_hid.rs: *)
(* UsbHidDriver::write_bits, read_bits and read_bits_signed, and the walks *)
(* _usb_hid_task makes over the entries of a parsed application: the      *)
(* start-up LED flash of a keyboard and the decoding of each input report *)
(* of a keyboard or a mouse.                                               *)
(*                                                                         *)
(* A byte buffer is a sequence of naturals below 256; byte k of the code   *)
(* is element k + 1.  An entry is a ParsedReportMainItem with the fields   *)
(* the walks read; usages are named by the constants the code compares    *)
(* them with, and Page gives the usage page of each.                      *)
(***************************************************************************)
EXTENDS Integers, Sequences, SequencesExt, Bitwise

CONSTANTS
    Blobs,      \* byte buffers read_bits is checked on
    FieldSizes, \* the field widths it is checked with
    Layouts,    \* applications: [usage, hasId, entries]
    Reports     \* 64-byte input buffers the decoders are checked on

\* Option<T>: <<>> for None, <<v>> for Some(v).
None == <<>>

\* The usage page of a usage: Usage::MOD_MIN and MOD_MAX (0xE0, 0xE7) and
\* the key codes are on the keyboard page, the lamps on the LED page.
Page(u) ==
    CASE u \in {"MOD_MIN", "MOD_MAX", "KEY"} -> "KEYBOARD"
      [] u = "LED" -> "LED"
      [] u = "BUTTON_1" -> "BUTTON"
      [] OTHER -> "DESKTOP"

\* ParsedReportMainItem::bit_count.
BitCount(e) == e.size * e.count

----------------------------------------------------------------------------
(***************************************************************************)
(* write_bits, read_bits and read_bits_signed.                            *)
(***************************************************************************)
\* blob.get(range) with range (position / 8)..((position + size + 7) / 8):
\* Some only when the whole range lies in the buffer.
InRange(blob, position, size) == (position + size + 7) \div 8 <= Len(blob)

\* The bytes the unchecked reads of read_bits take for a read of read_size
\* bits: one below 8, two below 16, ..., five from 32 on.
ReadWidth(readSize) ==
    CASE readSize < 8 -> 1 [] readSize < 16 -> 2 [] readSize < 24 -> 3
      [] readSize < 32 -> 4 [] OTHER -> 5

\* slice.get_unchecked(k) for the slice starting at byte lo: inside the
\* buffer its byte, past the buffer's end whatever memory follows (stray).
Unchecked(blob, lo, k, stray) ==
    IF lo + k < Len(blob) THEN blob[lo + k + 1] ELSE stray

\* Mutant: the bytes read are not shifted by position & 7.
ReadBitsNoShift(blob, position, size, stray) ==
    IF ~InRange(blob, position, size) THEN None
    ELSE LET bytes == [k \in 1..ReadWidth((position % 8) + size) |->
                         Unchecked(blob, position \div 8, k - 1, stray) * 256^(k - 1)]
         IN <<FoldLeft(+, 0, bytes) % 2^size>>

\* read_bits: the little-endian sum of the bytes read, shifted right by
\* position & 7 and masked to size bits (no mask above 63 bits).
ReadBits(blob, position, size, stray) ==
    IF ~InRange(blob, position, size) THEN None
    ELSE LET lo == position \div 8
             p7 == position % 8
             bytes == [k \in 1..ReadWidth(p7 + size) |->
                         Unchecked(blob, lo, k - 1, stray) * 256^(k - 1)]
             data == FoldLeft(+, 0, bytes) \div 2^p7
         IN <<IF size > 63 THEN data ELSE data % 2^size>>

\* read_bits_signed: the value read, with its top bit (mask 1 << (size - 1))
\* extended, !(mask - 1) | v, which is v - 2^size.
ReadBitsSigned(blob, position, size, stray) ==
    LET r == ReadBits(blob, position, size, stray)
    IN IF r = None THEN None
       ELSE <<IF (r[1] \div 2^(size - 1)) % 2 = 0 THEN r[1] ELSE r[1] - 2^size>>

\* write_bits: the outcomes, as records with the buffer and whether the
\* kernel panicked.  The value is masked to size bits and ORed into slice[0]
\* shifted left by position & 7 and truncated to u8; when rest_bits =
\* size - position7 is positive, value >> position7 is ORed byte by byte
\* into slice[0], slice[1], ... for ceil(rest_bits / 8) bytes.  size -
\* position7 is a usize subtraction: below zero it panics in a build with
\* overflow checks and wraps to a negative isize, skipping the loop,
\* without them.
WriteBits(blob, position, size, value) ==
    IF ~InRange(blob, position, size) THEN {[panic |-> FALSE, blob |-> blob]}
    ELSE LET lo == position \div 8
             p7 == position % 8
             v == value % 2^(IF size > 31 THEN 32 ELSE size)
             first == [blob EXCEPT ![lo + 1] = @ | ((v * 2^p7) % 256)]
             rest == size - p7
             shifted == v \div 2^p7
             looped == [i \in DOMAIN first |->
                          IF lo < i /\ i <= lo + (rest + 7) \div 8
                          THEN first[i] | ((shifted \div 256^(i - lo - 1)) % 256)
                          ELSE first[i]]
         IN CASE rest > 0 -> {[panic |-> FALSE, blob |-> looped]}
              [] rest = 0 -> {[panic |-> FALSE, blob |-> first]}
              [] OTHER -> {[panic |-> TRUE, blob |-> blob],
                           [panic |-> FALSE, blob |-> first]}

----------------------------------------------------------------------------
(***************************************************************************)
(* The walks of _usb_hid_task over an application's entries.               *)
(***************************************************************************)
\* Mutant: a constant Output entry leaves bit_position where it is.
LedFlashPadsStay(entries) ==
    LET Lit(S, i) ==
            UNION {{[s EXCEPT !.data = w.blob, !.panic = w.panic] :
                       w \in WriteBits(s.data, s.bp + i, 1, 1)} : s \in S}
        Step(S, e) ==
            CASE e.kind # "Output" \/ e.const -> S
              [] e.size = 1 /\ Page(e.umin) = "LED" ->
                   {[s EXCEPT !.bp = @ + BitCount(e)] :
                      s \in FoldLeft(LAMBDA T, i : Lit(T, i), S, [k \in 1..e.count |-> k - 1])}
              [] OTHER -> {[s EXCEPT !.bp = @ + BitCount(e)] : s \in S}
    IN FoldLeft(Step, {[data |-> [k \in 1..64 |-> 0], bp |-> 0, panic |-> FALSE]},
                entries)

\* The LED flash: for each Output entry, a constant one moves bit_position
\* on; a one-bit one on the LED page has write_bits(data, bit_position + i,
\* 1, 1) for each of its fields; then bit_position moves on by its
\* bit_count.  The outcomes, as records of data, bit_position and panic,
\* from data = [0; 64].
LedFlash(entries) ==
    LET Lit(S, e, i) ==
            UNION {IF s.panic THEN {s}
                   ELSE {[s EXCEPT !.data = w.blob, !.panic = w.panic] :
                           w \in WriteBits(s.data, s.bp + i, 1, 1)} : s \in S}
        Lamps(S, e) ==
            IF e.size = 1 /\ Page(e.umin) = "LED"
            THEN FoldLeft(LAMBDA T, i : Lit(T, e, i), S, [k \in 1..e.count |-> k - 1])
            ELSE S
        Step(S, e) ==
            IF e.kind # "Output" THEN S
            ELSE {[s EXCEPT !.bp = @ + BitCount(e)] :
                    s \in IF e.const THEN S ELSE Lamps(S, e)}
    IN FoldLeft(Step, {[data |-> [k \in 1..64 |-> 0], bp |-> 0, panic |-> FALSE]},
                entries)

\* A keyboard input report: modifier from a variable one-bit entry spanning
\* MOD_MIN..MOD_MAX (read_bits of report_count bits, truncated to u8); the
\* key codes from an 8-bit array entry on the keyboard page, byte by byte
\* for at most keydata.len() = 6 fields; constant entries and the others
\* are skipped by their bit_count, entries other than Input without moving
\* bit_position.  bit_position starts after the report id byte when the
\* descriptor has report ids.
DecodeKeyboard(entries, buffer, hasId) ==
    LET Field(s, e) ==
            CASE e.var /\ e.size = 1 /\ e.umin = "MOD_MIN" /\ e.umax = "MOD_MAX" ->
                    [s EXCEPT !.modifier = ReadBits(buffer, s.bp, e.count, 0)[1] % 256]
              [] e.size = 8 /\ ~e.var /\ Page(e.umin) = "KEYBOARD" ->
                    [s EXCEPT !.keys = [k \in 1..6 |->
                        IF k <= e.count THEN buffer[s.bp \div 8 + k] ELSE @[k]]]
              [] OTHER -> s
        Step(s, e) ==
            IF e.kind # "Input" THEN s
            ELSE LET t == IF e.const THEN s ELSE Field(s, e)
                 IN [t EXCEPT !.bp = @ + BitCount(e)]
    IN FoldLeft(Step, [bp |-> IF hasId THEN 8 ELSE 0, modifier |-> 0,
                       keys |-> [k \in 1..6 |-> 0]], entries)

\* Mutant: bit_position starts at 0 even when the report begins with its id.
DecodeMouseNoReportId(entries, buffer, hasId) ==
    LET Axis(s, e, f) ==
            LET r == IF e.rel THEN ReadBitsSigned(buffer, s.bp, e.size, 0)
                     ELSE ReadBits(buffer, s.bp, e.size, 0)
            IN CASE r = None -> [s EXCEPT !.panic = TRUE]
                 [] e.rel -> [s EXCEPT ![f] = r[1]]
                 [] OTHER -> [s EXCEPT ![f] = r[1], !.absolute = TRUE,
                                       !.max[f] = e.lmax]
        Field(s, e) ==
            CASE e.umin = "BUTTON_1" ->
                    IF e.var /\ e.size = 1
                    THEN [s EXCEPT !.buttons = ReadBits(buffer, s.bp, e.count, 0)[1] % 256]
                    ELSE s
              [] e.umin \in {"X", "Y"} -> Axis(s, e, e.umin)
              [] e.umin = "WHEEL" /\ e.rel -> Axis(s, e, "WHEEL")
              [] OTHER -> s
        Step(s, e) ==
            IF e.kind # "Input" \/ s.panic THEN s
            ELSE LET t == IF e.const THEN s ELSE Field(s, e)
                 IN [t EXCEPT !.bp = @ + BitCount(e)]
    IN FoldLeft(Step, [bp |-> 0, buttons |-> 0,
                       X |-> 0, Y |-> 0, WHEEL |-> 0, absolute |-> FALSE,
                       max |-> [X |-> 0, Y |-> 0], panic |-> FALSE], entries)

\* A mouse input report: the buttons from a variable one-bit entry of
\* BUTTON_1 (truncated to u8); X and Y signed when relative, else unsigned
\* with the logical maximum kept and is_absolute set; the wheel only when
\* relative.  A read_bits that gives None reaches todo!(), recorded as
\* panic.
DecodeMouse(entries, buffer, hasId) ==
    LET Axis(s, e, f) ==
            LET r == IF e.rel THEN ReadBitsSigned(buffer, s.bp, e.size, 0)
                     ELSE ReadBits(buffer, s.bp, e.size, 0)
            IN CASE r = None -> [s EXCEPT !.panic = TRUE]
                 [] e.rel -> [s EXCEPT ![f] = r[1]]
                 [] OTHER -> [s EXCEPT ![f] = r[1], !.absolute = TRUE,
                                       !.max[f] = e.lmax]
        Field(s, e) ==
            CASE e.umin = "BUTTON_1" ->
                    IF e.var /\ e.size = 1
                    THEN [s EXCEPT !.buttons = ReadBits(buffer, s.bp, e.count, 0)[1] % 256]
                    ELSE s
              [] e.umin \in {"X", "Y"} -> Axis(s, e, e.umin)
              [] e.umin = "WHEEL" /\ e.rel -> Axis(s, e, "WHEEL")
              [] OTHER -> s
        Step(s, e) ==
            IF e.kind # "Input" \/ s.panic THEN s
            ELSE LET t == IF e.const THEN s ELSE Field(s, e)
                 IN [t EXCEPT !.bp = @ + BitCount(e)]
    IN FoldLeft(Step, [bp |-> IF hasId THEN 8 ELSE 0, buttons |-> 0,
                       X |-> 0, Y |-> 0, WHEEL |-> 0, absolute |-> FALSE,
                       max |-> [X |-> 0, Y |-> 0], panic |-> FALSE], entries)

----------------------------------------------------------------------------
(***************************************************************************)
(* Reference definitions: the HID report format, bit by bit.  A field of  *)
(* size bits at bit offset p is bits p .. p + size - 1, least significant *)
(* first (HID 1.11, 5.8 and 8.4), and the fields of an application's      *)
(* reports of one kind follow one another after the report id byte.       *)
(***************************************************************************)
Bit(blob, j) == (blob[j \div 8 + 1] \div 2^(j % 8)) % 2

FieldValue(blob, p, size) ==
    SumFunction([j \in 0..(size - 1) |-> Bit(blob, p + j) * 2^j])

Signed(v, size) == IF v < 2^(size - 1) THEN v ELSE v - 2^size

\* The bit offset of entry k among the entries of its kind.
Offset(es, k, hasId) ==
    (IF hasId /\ es[k].kind = "Input" THEN 8 ELSE 0)
        + SumFunction([j \in {j \in 1..(k - 1) : es[j].kind = es[k].kind} |->
                          BitCount(es[j])])

IsLamp(e) == e.kind = "Output" /\ ~e.const /\ e.size = 1 /\ Page(e.umin) = "LED"

\* The fields of the entries of kind K of application a that satisfy P.
Fields(a, K, P(_)) == {k \in DOMAIN a.entries : a.entries[k].kind = K /\ P(a.entries[k])}

(***************************************************************************)
(* What the helpers and walks must give, over the bounded inputs.          *)
(***************************************************************************)
\* read_bits and read_bits_signed give the field at any bit position and
\* width that fits the buffer, and None otherwise, whatever byte lies past
\* the buffer: the unchecked reads take a byte more than the field needs
\* when position & 7 + size is a multiple of 8, and a field ending at the
\* buffer's end reads past it.
ReadBitsCorrect ==
    \A b \in Blobs : \A p \in 0..(8 * Len(b) - 1), s \in FieldSizes, x \in {0, 255} :
        IF p + s <= 8 * Len(b)
        THEN /\ ReadBits(b, p, s, x) = <<FieldValue(b, p, s)>>
             /\ ReadBitsSigned(b, p, s, x) = <<Signed(FieldValue(b, p, s), s)>>
        ELSE ReadBits(b, p, s, x) = None

\* The start-up LED flash of a keyboard lights exactly the LED fields of its
\* Output report, each at the offset the report format gives it, in every
\* outcome in which write_bits does not panic: write_bits is called with
\* size 1 at every bit offset, and bit_position must skip constant fields.
LedBitsCorrect ==
    \A a \in Layouts :
        a.usage = "KEYBOARD" =>
            \A o \in LedFlash(a.entries) :
                ~o.panic =>
                    {j \in 0..511 : Bit(o.data, j) = 1} =
                        UNION {{Offset(a.entries, k, FALSE) + i :
                                   i \in 0..(a.entries[k].count - 1)} :
                                  k \in Fields(a, "Output", IsLamp)}

\* Every input report is decoded into the fields the layout places in it:
\* the keyboard's modifier bits and key codes, the mouse's buttons, X, Y
\* and wheel (signed when relative), each read at the offset of its entry
\* after the report id byte, with constant and other-kind entries skipped.
ReportsCorrect ==
    \A a \in Layouts, buf \in Reports :
        LET es == a.entries
            At(k) == FieldValue(buf, Offset(es, k, a.hasId), es[k].size)
        IN
        CASE a.usage = "KEYBOARD" ->
               LET d == DecodeKeyboard(es, buf, a.hasId)
                   ms == Fields(a, "Input", LAMBDA e : e.var /\ e.umin = "MOD_MIN")
                   ks == Fields(a, "Input", LAMBDA e : ~e.var /\ ~e.const /\ e.umin = "KEY")
               IN /\ \A k \in ms : d.modifier = FieldValue(buf, Offset(es, k, a.hasId), es[k].count)
                  /\ \A k \in ks, i \in 1..6 :
                       d.keys[i] = IF i <= es[k].count
                                   THEN FieldValue(buf, Offset(es, k, a.hasId) + 8 * (i - 1), 8)
                                   ELSE 0
          [] a.usage = "MOUSE" ->
               LET d == DecodeMouse(es, buf, a.hasId)
                   Val(k) == IF es[k].rel THEN Signed(At(k), es[k].size) ELSE At(k)
               IN /\ ~d.panic
                  /\ \A k \in Fields(a, "Input", LAMBDA e : ~e.const) :
                       CASE es[k].umin = "BUTTON_1" ->
                              d.buttons = FieldValue(buf, Offset(es, k, a.hasId), es[k].count)
                         [] es[k].umin \in {"X", "Y", "WHEEL"} -> d[es[k].umin] = Val(k)
                         [] OTHER -> TRUE
                  /\ d.absolute = \E k \in DOMAIN es : es[k].umin = "X" /\ ~es[k].rel
          [] OTHER -> TRUE
=============================================================================
