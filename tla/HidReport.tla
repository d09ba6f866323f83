----------------------------- MODULE HidReport -----------------------------
(***************************************************************************)
(* UsbHidDriver::parse_report of                                           *)
(* src/system/kernel/src/bus/usb/drivers/usb_hid.rs: one pass over a HID   *)
(* report descriptor that groups the main items into applications, keyed  *)
(* by report ID (ParsedReport.tagged) or, without one, kept as the        *)
(* primary application.  Each step handles one item, in the order the    *)
(* loop reads them.                                                        *)
(*                                                                         *)
(* The descriptor is given already decoded into items: the lead-byte and   *)
(* parameter decoding (HidReporteReader, HidReportLeadByte) is in megstd,  *)
(* outside the repository.  Of the global state the model keeps           *)
(* report_count and report_id, of the local state the usage list; usage    *)
(* pages, units and logical or physical ranges are copied into entries    *)
(* unchanged by the code and are left out.  An entry records the index of *)
(* the item it came from, so that properties can follow items.             *)
(***************************************************************************)
EXTENDS Naturals, Sequences, SequencesExt

CONSTANT Descriptors   \* the decoded descriptors to parse

Item(t, p) == [tag |-> t, param |-> p]

MainTags == {"Input", "Output", "Feature"}

\* ParsedReportApplication::empty(): report_id 0, usage NONE (0).
EmptyApp == [rid |-> 0, usage |-> 0, entries |-> <<>>]

VARIABLES
    desc,        \* the descriptor
    pos,         \* the reader's position (index of the next item)
    result,      \* "running", "ok" or "err" (Err at position pos)
    ctx,         \* collection_ctx
    stack,       \* the Push/Pop stack of saved global states
    reportCount, \* global.report_count
    usages,      \* local.usage
    cur,         \* current_app
    ids,         \* parsed_report.report_ids
    primary,     \* parsed_report.primary: <<>> for None, <<app>> for Some
    tagged       \* parsed_report.tagged: report id -> application

vars == <<desc, pos, result, ctx, stack, reportCount, usages, cur, ids,
          primary, tagged>>

\* The item the loop handles next.
Cur == desc[pos]

\* ParsedReportApplication::clear_stream and clear.
ClearStream(a) == [a EXCEPT !.entries = <<>>]
Clear(a) == [ClearStream(a) EXCEPT !.rid = 0, !.usage = 0]

\* ParsedReportMainItem::new: the share of the count it was given, else
\* global.report_count, stored as u8.
MainItem(kind, i, usage, count) ==
    [kind |-> kind, item |-> i, usage |-> usage,
     count |-> (IF count > 0 THEN count ELSE reportCount) % 256]

\* ParsedReportMainItem::parse: one entry per local usage, each with
\* report_count / usage.len(); without usages one entry.
Parse(entries, kind, i) ==
    IF usages # <<>>
    THEN entries \o [k \in 1..Len(usages) |->
                       MainItem(kind, i, usages[k], reportCount \div Len(usages))]
    ELSE Append(entries, MainItem(kind, i, 0, 0))

\* A collection entry (ParsedReportEntry::Collection or EndCollection).
CollEntry(kind, i) == [kind |-> kind, item |-> i, usage |-> 0, count |-> 0]

\* Store an application under its report id, or as the primary one.
Store(a) ==
    IF a.rid > 0
    THEN /\ tagged' = (a.rid :> a) @@ tagged
         /\ UNCHANGED primary
    ELSE /\ primary' = <<a>>
         /\ UNCHANGED tagged

\* ParsedReport::has_report_id, app_by_report_id and primary_app, and the
\* choice _usb_hid_task makes with them: the application a report whose
\* first byte is b is decoded with (<<>> when there is none and the report
\* is skipped).
HasReportId == ids # <<>>
AppByReportId(b) == IF b \in DOMAIN tagged THEN <<tagged[b]>> ELSE <<>>
PrimaryApp == primary
AppFor(b) == IF HasReportId THEN AppByReportId(b) ELSE PrimaryApp

Init ==
    /\ desc \in Descriptors
    /\ pos = 1
    /\ result = "running"
    /\ ctx = <<>> /\ stack = <<>>
    /\ reportCount = 0
    /\ usages = <<>>
    /\ cur = EmptyApp
    /\ ids = <<>> /\ primary = <<>> /\ tagged = <<>>

Reading == result = "running" /\ pos <= Len(desc)

(***************************************************************************)
(* One action per arm of the match on the item tag.                       *)
(***************************************************************************)
\* reader.next() returns None: Ok(parsed_report).
Finish ==
    /\ result = "running" /\ pos > Len(desc)
    /\ result' = "ok"
    /\ UNCHANGED <<desc, pos, ctx, stack, reportCount, usages, cur, ids,
                   primary, tagged>>

\* Input, Output and Feature: entries from the global and local state, then
\* local.reset().
Main ==
    /\ Reading /\ Cur.tag \in MainTags
    /\ cur' = [cur EXCEPT !.entries = Parse(@, Cur.tag, pos)]
    /\ usages' = <<>>
    /\ pos' = pos + 1
    /\ UNCHANGED <<desc, result, ctx, stack, reportCount, ids, primary, tagged>>

\* Collection(Application).  The type is pushed on collection_ctx before
\* the test collection_ctx.contains(&Application), so the current
\* application is always stored; then it starts afresh with the first local
\* usage.
CollectionApp ==
    /\ Reading /\ Cur.tag = "App"
    /\ ctx' = Append(ctx, "App")
    /\ Store(cur)
    /\ cur' = [ClearStream(cur) EXCEPT !.usage = IF usages = <<>> THEN 0
                                                 ELSE usages[1]]
    /\ usages' = <<>>
    /\ pos' = pos + 1
    /\ UNCHANGED <<desc, result, stack, reportCount, ids>>

\* Collection of another type: pushed, and recorded as an entry.
CollectionPhys ==
    /\ Reading /\ Cur.tag = "Phys"
    /\ ctx' = Append(ctx, "Phys")
    /\ cur' = [cur EXCEPT !.entries = Append(@, CollEntry("Phys", pos))]
    /\ usages' = <<>>
    /\ pos' = pos + 1
    /\ UNCHANGED <<desc, result, stack, reportCount, ids, primary, tagged>>

\* EndCollection: Err with nothing open; closing an application stores and
\* clears it; closing another collection is recorded as an entry.
EndCollection ==
    /\ Reading /\ Cur.tag = "End"
    /\ IF ctx = <<>>
       THEN /\ result' = "err"
            /\ UNCHANGED <<ctx, cur, usages, pos, primary, tagged>>
       ELSE /\ ctx' = Front(ctx)
            /\ IF Last(ctx) = "App"
               THEN /\ Store(cur)
                    /\ cur' = Clear(cur)
               ELSE /\ cur' = [cur EXCEPT !.entries = Append(@, CollEntry("End", pos))]
                    /\ UNCHANGED <<primary, tagged>>
            /\ usages' = <<>>
            /\ pos' = pos + 1
            /\ UNCHANGED result
    /\ UNCHANGED <<desc, stack, reportCount, ids>>

\* Mutant: a report id always starts a fresh stream, never resuming the
\* application stored under it.
ReportIdNoResume ==
    /\ Reading /\ Cur.tag = "Rid"
    /\ LET r == Cur.param IN
       /\ ids' = IF r \in ToSet(ids) THEN ids ELSE Append(ids, r)
       /\ IF cur.rid > 0
          THEN /\ tagged' = (cur.rid :> cur) @@ tagged
               /\ cur' = [cur EXCEPT !.entries = <<>>, !.rid = r]
          ELSE /\ cur' = [cur EXCEPT !.rid = r]
               /\ UNCHANGED tagged
    /\ pos' = pos + 1
    /\ UNCHANGED <<desc, result, ctx, stack, reportCount, usages, primary>>

\* ReportId: record the id; if the current application already has one,
\* store it under that id and resume the application stored under the new
\* id (keeping the current usage), or start a fresh stream; then the
\* current application takes the new id.  (global.report_id is set too; no
\* later code reads it.)
ReportId ==
    /\ Reading /\ Cur.tag = "Rid"
    /\ LET r == Cur.param
           stored == (cur.rid :> cur) @@ tagged
       IN
       /\ ids' = IF r \in ToSet(ids) THEN ids ELSE Append(ids, r)
       /\ IF cur.rid > 0
          THEN IF r \in DOMAIN stored
               THEN /\ cur' = [stored[r] EXCEPT !.usage = cur.usage]
                    /\ tagged' = Restrict(stored, DOMAIN stored \ {r})
               ELSE /\ cur' = [cur EXCEPT !.entries = <<>>, !.rid = r]
                    /\ tagged' = stored
          ELSE /\ cur' = [cur EXCEPT !.rid = r]
               /\ UNCHANGED tagged
    /\ pos' = pos + 1
    /\ UNCHANGED <<desc, result, ctx, stack, reportCount, usages, primary>>

\* ReportCount sets global.report_count.
ReportCount ==
    /\ Reading /\ Cur.tag = "Count"
    /\ reportCount' = Cur.param
    /\ pos' = pos + 1
    /\ UNCHANGED <<desc, result, ctx, stack, usages, cur, ids, primary, tagged>>

\* Push saves the global state.
Push ==
    /\ Reading /\ Cur.tag = "Push"
    /\ stack' = Append(stack, reportCount)
    /\ pos' = pos + 1
    /\ UNCHANGED <<desc, result, ctx, reportCount, usages, cur, ids, primary,
                   tagged>>

\* Mutant: Pop on an empty stack keeps the global state and goes on.
PopUnchecked ==
    /\ Reading /\ Cur.tag = "Pop"
    /\ IF stack = <<>>
       THEN UNCHANGED <<stack, reportCount>>
       ELSE /\ reportCount' = Last(stack)
            /\ stack' = Front(stack)
    /\ pos' = pos + 1
    /\ UNCHANGED <<desc, result, ctx, usages, cur, ids, primary, tagged>>

\* Pop restores the saved global state, or returns Err with none saved.
Pop ==
    /\ Reading /\ Cur.tag = "Pop"
    /\ IF stack = <<>>
       THEN /\ result' = "err"
            /\ UNCHANGED <<stack, reportCount, pos>>
       ELSE /\ reportCount' = Last(stack)
            /\ stack' = Front(stack)
            /\ pos' = pos + 1
            /\ UNCHANGED result
    /\ UNCHANGED <<desc, ctx, usages, cur, ids, primary, tagged>>

\* Usage appends to local.usage.
Usage ==
    /\ Reading /\ Cur.tag = "Usage"
    /\ usages' = Append(usages, Cur.param)
    /\ pos' = pos + 1
    /\ UNCHANGED <<desc, result, ctx, stack, reportCount, cur, ids, primary,
                   tagged>>

Next ==
    \/ Main \/ CollectionApp \/ CollectionPhys \/ EndCollection
    \/ ReportId \/ ReportCount \/ Push \/ Pop \/ Usage
    \/ Finish

Spec == Init /\ [][Next]_vars

(***************************************************************************)
(* Reference definitions, by recursion over the descriptor, of what the    *)
(* HID specification gives an item: the collections open before it, the   *)
(* report count in force and the report id in force.                      *)
(***************************************************************************)
RECURSIVE Unbalanced(_, _, _, _)
\* The index of the first EndCollection or Pop with nothing to close or
\* restore, from item i on, with open collections and pushed states; 0 if
\* there is none.
Unbalanced(d, i, open, pushed) ==
    IF i > Len(d) THEN 0
    ELSE CASE d[i].tag \in {"App", "Phys"} -> Unbalanced(d, i + 1, open + 1, pushed)
           [] d[i].tag = "Push" -> Unbalanced(d, i + 1, open, pushed + 1)
           [] d[i].tag = "End" ->
                IF open = 0 THEN i ELSE Unbalanced(d, i + 1, open - 1, pushed)
           [] d[i].tag = "Pop" ->
                IF pushed = 0 THEN i ELSE Unbalanced(d, i + 1, open, pushed - 1)
           [] OTHER -> Unbalanced(d, i + 1, open, pushed)

RECURSIVE CtxBefore(_, _)
\* The collections open before item i.
CtxBefore(d, i) ==
    IF i = 1 THEN <<>>
    ELSE LET c == CtxBefore(d, i - 1) IN
         CASE d[i - 1].tag \in {"App", "Phys"} -> Append(c, d[i - 1].tag)
           [] d[i - 1].tag = "End" /\ c # <<>> -> Front(c)
           [] OTHER -> c

RECURSIVE GlobalsBefore(_, _)
\* The saved report counts and, last, the one in force before item i.
GlobalsBefore(d, i) ==
    IF i = 1 THEN <<0>>
    ELSE LET g == GlobalsBefore(d, i - 1) IN
         CASE d[i - 1].tag = "Count" -> [g EXCEPT ![Len(g)] = d[i - 1].param]
           [] d[i - 1].tag = "Push" -> Append(g, Last(g))
           [] d[i - 1].tag = "Pop" /\ Len(g) > 1 -> Front(g)
           [] OTHER -> g

CountAt(d, i) == Last(GlobalsBefore(d, i))

\* The report id in force at item i (0 before any).
RidAt(d, i) ==
    LET js == {j \in 1..(i - 1) : d[j].tag = "Rid"}
    IN IF js = {} THEN 0 ELSE d[Max(js)].param

\* The application collection item i is in.
AppStart(d, i) == Max({j \in 1..i : d[j].tag = "App"} \cup {0})

\* The items that become entries: main items and the opening and closing
\* of collections other than applications.
Recorded(d) ==
    {i \in DOMAIN d : \/ d[i].tag \in MainTags \cup {"Phys"}
                      \/ d[i].tag = "End" /\ CtxBefore(d, i) # <<>>
                                          /\ Last(CtxBefore(d, i)) = "Phys"}

\* Descriptors in which every collection is closed and every application
\* is top level, opens with its report id, reports and switches only
\* inside it, and uses ids no earlier application used.
WellTagged(d) ==
    /\ Unbalanced(d, 1, 0, 0) = 0
    /\ CtxBefore(d, Len(d) + 1) = <<>>
    /\ \A i \in DOMAIN d :
         /\ d[i].tag = "App" => /\ CtxBefore(d, i) = <<>>
                                /\ i < Len(d) /\ d[i + 1].tag = "Rid"
         /\ d[i].tag \in MainTags \cup {"Phys", "Rid"} =>
              "App" \in ToSet(CtxBefore(d, i))
         /\ d[i].tag = "Rid" =>
              \A j \in 1..(AppStart(d, i) - 1) :
                 d[j].tag = "Rid" => d[j].param # d[i].param

ItemsOf(a) == {a.entries[k].item : k \in DOMAIN a.entries}

\* The report counts the entries of item i of application a add up to.
FieldsOf(a, i) ==
    FoldLeft(LAMBDA n, e : n + (IF e.item = i THEN e.count ELSE 0), 0, a.entries)

(***************************************************************************)
(* Properties.                                                             *)
(***************************************************************************)
\* parse_report fails exactly on the first EndCollection with no open
\* collection or Pop with no pushed state, and at that item: the Err
\* returns of the EndCollection and Pop arms.
ParseErrorsExact ==
    result # "running" =>
        (IF result = "err" THEN pos ELSE 0) = Unbalanced(desc, 1, 0, 0)

\* For a descriptor whose applications each carry their own report ids,
\* a report with first byte r is decoded by the report loop with an
\* application holding every entry of the items sent under id r, in
\* descriptor order, and nothing else, although ReportId switches store
\* and resume the current application in the middle of a collection.
ItemsKept ==
    result = "ok" /\ WellTagged(desc) =>
        \A r \in ToSet(ids) :
            /\ AppFor(r) # <<>>
            /\ LET es == AppFor(r)[1].entries IN
               /\ ItemsOf(AppFor(r)[1]) = {i \in Recorded(desc) : RidAt(desc, i) = r}
               /\ \A k \in 1..(Len(es) - 1) : es[k].item <= es[k + 1].item

\* Every main item becomes fields adding up to the report count in force
\* (HID 1.11, 6.2.2.8: a usage list shorter than the count gives its last
\* usage to the remaining fields): ParsedReportMainItem::parse divides
\* report_count among the usages.
FieldsCounted ==
    result = "ok" =>
        \A a \in Range(primary) \cup Range(tagged) :
            \A k \in DOMAIN a.entries :
                a.entries[k].kind \in MainTags =>
                    FieldsOf(a, a.entries[k].item) = CountAt(desc, a.entries[k].item)
=============================================================================
