------------------------------- MODULE TagStore -------------------------------
(***************************************************************************)
(* The tags of the output file (metadata.c, m4af.c 490-645, main.c 421-458 *)
(* and 599-644).  Tags come from the options, from the info strings of the *)
(* source and from a JSON file; finalize_m4a() writes them into the slots  *)
(* of itmf_table in the order source, JSON, options, and adds two of its   *)
(* own.  A number and its total may come in one string or in two, in any   *)
(* order, and are joined in a context until they are submitted.            *)
(*                                                                         *)
(* A value is a text and the numbers that sscanf() would find in it; what  *)
(* it looks like otherwise is left out.                                    *)
(***************************************************************************)
EXTENDS SequencesExt, FiniteSetsExt, Integers

CONSTANTS
  OptionLists,   \* the lists of tag options the program is called with
  SourceLists,   \* the lists of calls the reader of the source makes
  JsonLists,     \* the lists of members a JSON file has, no file being <<>>
  Texts          \* the texts there are

\* The tags that are told apart, all the others being "text".
Codes == {"trkn", "disk", "tmpo", "cpil", "covr", "tool", "----", "text"}

Blank == ""

Values == [text : Texts, nums : Seq(Nat)]
Origins == {"argument", "file", "missing file"}
OptionSet == [tag : Codes, name : Texts, value : Values, from : Origins]
CallSet == [row : Nat, value : Values]

\* The program's own texts are among them.
ASSUME TextsAssumption ==
  {Blank, "n", "n/t", "fdkaac", "iTunSMPB", "gapless"} \subseteq Texts
ASSUME InputsAssumption ==
  /\ OptionLists \subseteq Seq(OptionSet)
  /\ SourceLists \subseteq Seq(CallSet)
  /\ JsonLists \subseteq Seq(CallSet)

VARIABLES
  input,         \* the lists of this run, and whether iTunSMPB is written
  phase,         \* where the program is
  todo,          \* what is left of the list of this phase
  pairs,         \* the context of aacenc_translate_generic_text_tag()
  source_tags,   \* params->source_tags
  tags,          \* params->tags
  queue,         \* entries that are about to be written to the slots
  itmf_table,    \* ctx->itmf_table
  last_error     \* ctx->last_error is set

vars == <<input, phase, todo, pairs, source_tags, tags, queue, itmf_table, last_error>>

-----------------------------------------------------------------------------
(***************************************************************************)
(* Values and entries.                                                     *)
(***************************************************************************)
Text(t) == [text |-> t, nums |-> <<>>]
Number(t, n) == [text |-> t, nums |-> <<n>>]
Pair(t, m, n) == [text |-> t, nums |-> <<m, n>>]
Empty == Text(Blank)

Entry(tag, name, value) == [tag |-> tag, name |-> name, value |-> value]

Pictures == {"gif", "jpeg", "png"}   \* texts that begin like a picture

\* Numbers are cut down to the width of their field.
Field16(n) == n % 65536
Field8(n) == n % 256

\* aacenc_write_tag_entry() and the m4af_add_itmf_*_tag() functions: what is
\* stored for an entry.  Empty is not stored at all.
Content(e) ==
  LET n == e.value.nums
  IN  CASE e.tag \in {"trkn", "disk"} ->
             IF n = <<>> THEN Empty
             ELSE Pair(Blank, Field16(n[1]), IF Len(n) = 2 THEN Field16(n[2]) ELSE 0)
        [] e.tag = "tmpo" -> IF n = <<>> THEN Empty ELSE Number(Blank, Field16(n[1]))
        [] e.tag = "cpil" -> IF n = <<>> THEN Empty ELSE Number(Blank, Field8(n[1]))
        [] e.tag = "covr" -> IF e.value.text \in Pictures THEN Text(e.value.text) ELSE Empty
        [] e.tag = "----" -> IF e.name = Blank THEN Empty ELSE Text(e.value.text)
        [] OTHER -> Text(e.value.text)

TypeCode(e) ==
  CASE e.tag \in {"trkn", "disk"} -> "implicit"
    [] e.tag \in {"tmpo", "cpil"} -> "integer"
    [] e.tag = "covr" -> e.value.text
    [] OTHER -> "utf8"

-----------------------------------------------------------------------------
(***************************************************************************)
(* The table of keys.  A key is known by its row in tag_mapping_table,     *)
(* which bsearch() takes to be sorted: rows 27 and 28, tempo and           *)
(* recordeddate, are the wrong way round.                                  *)
(***************************************************************************)
Rows == 38
RankOfRow(r) == IF r = 27 THEN 28 ELSE IF r = 28 THEN 27 ELSE r

\* bsearch() of the C library: halving [l, u).
FoundRow(r) ==
  LET half[l \in 0 .. Rows, u \in 0 .. Rows] ==
        LET mid == (l + u) \div 2
        IN  IF l >= u THEN 0
            ELSE IF RankOfRow(r) < RankOfRow(mid + 1) THEN half[l, mid]
            ELSE IF RankOfRow(r) > RankOfRow(mid + 1) THEN half[mid + 1, u]
            ELSE mid + 1
  IN  half[0, Rows]

\* The rows whose tags are told apart here.
TagOfRow(r) ==
  CASE r \in {34, 35} -> "trkn"
    [] r \in {20, 21} -> "disk"
    [] r \in {33, 36} -> "total tracks"
    [] r \in {22, 32} -> "total discs"
    [] r \in {11, 27} -> "tmpo"
    [] r \in {13, 25} -> "cpil"
    [] OTHER -> "text"

-----------------------------------------------------------------------------
(***************************************************************************)
(* aacenc_translate_generic_text_tag().                                    *)
(***************************************************************************)
Fields == {"track", "track_total", "disc", "disc_total"}

NoPairs == [f \in Fields |-> 0]

\* A call: a key and a value, or the null key that submits the pairs.
Call(row, value) == [row |-> row, value |-> value]
FlushCall == Call(0, Empty)

WithPair(ctx, number, total, nums) ==
  [ctx EXCEPT ![number] = IF Len(nums) >= 1 THEN nums[1] ELSE @,
              ![total] = IF Len(nums) = 2 THEN nums[2] ELSE @]

WithTotal(ctx, total, nums) ==
  [ctx EXCEPT ![total] = IF Len(nums) >= 1 THEN nums[1] ELSE @]

\* What a call leaves in the context.
PairsAfter(ctx, call) ==
  LET tag == TagOfRow(FoundRow(call.row))
      nums == call.value.nums
  IN  IF call.row = 0 \/ FoundRow(call.row) = 0 \/ call.value = Empty THEN ctx
      ELSE CASE tag = "trkn" -> WithPair(ctx, "track", "track_total", nums)
             [] tag = "disk" -> WithPair(ctx, "disc", "disc_total", nums)
             [] tag = "total tracks" -> WithTotal(ctx, "track_total", nums)
             [] tag = "total discs" -> WithTotal(ctx, "disc_total", nums)
             [] OTHER -> ctx

\* tag_put_number_pair(): a total without a number is not submitted.
Submitted(tag, number, total) ==
  IF number = 0 THEN <<>>
  ELSE IF total = 0 THEN <<Entry(tag, Blank, Number("n", number))>>
  ELSE <<Entry(tag, Blank, Pair("n/t", number, total))>>

\* The entries a call adds.  (From JSON an empty string is added as well, to be
\* left out when it is written.)
Added_TotalsToo(ctx, call) ==
  LET tag == TagOfRow(FoundRow(call.row))
  IN  IF call.row = 0
        THEN Submitted("trkn", ctx["track"], ctx["track_total"])
               \o Submitted("disk", ctx["disc"], ctx["disc_total"])
      ELSE IF FoundRow(call.row) = 0 \/ call.value = Empty \/ tag \in {"trkn", "disk"}
        THEN <<>>
      ELSE <<Entry(tag, Blank, call.value)>>

Added(ctx, call) ==
  LET tag == TagOfRow(FoundRow(call.row))
  IN  IF call.row = 0
        THEN Submitted("trkn", ctx["track"], ctx["track_total"])
               \o Submitted("disk", ctx["disc"], ctx["disc_total"])
      ELSE IF FoundRow(call.row) = 0 \/ call.value = Empty
              \/ tag \in {"trkn", "disk", "total tracks", "total discs"}
        THEN <<>>
      ELSE <<Entry(tag, Blank, call.value)>>

-----------------------------------------------------------------------------
(***************************************************************************)
(* Collecting.                                                             *)
(***************************************************************************)
Option(tag, name, value, from) ==
  [tag |-> tag, name |-> name, value |-> value, from |-> from]

\* aacenc_add_tag_to_store() for one option.  A file that cannot be read, or
\* is too large, leaves no data but the length of its name, and memcpy() then
\* copies from a null pointer.
AddOption ==
  /\ phase = "options"
  /\ todo # <<>>
  /\ LET o == Head(todo)
     IN  IF o.from = "missing file"
           THEN phase' = "crashed" /\ UNCHANGED tags
           ELSE /\ tags' = IF o.from = "argument" /\ o.value = Empty THEN tags
                           ELSE Append(tags, Entry(o.tag, o.name, o.value))
                /\ UNCHANGED phase
  /\ todo' = Tail(todo)
  /\ UNCHANGED <<input, pairs, source_tags, queue, itmf_table, last_error>>

\* The reader of the source calls back, with its own context.
SourceCall ==
  /\ phase = "source"
  /\ todo # <<>>
  /\ source_tags' = source_tags \o Added(pairs, Head(todo))
  /\ pairs' = PairsAfter(pairs, Head(todo))
  /\ todo' = Tail(todo)
  /\ UNCHANGED <<input, phase, tags, queue, itmf_table, last_error>>

\* aacenc_write_tags_from_json(): a member of the object is translated in a
\* context of the file; what it adds is written at once.
JsonMember ==
  /\ phase = "json"
  /\ queue = <<>>
  /\ todo # <<>>
  /\ queue' = Added(pairs, Head(todo))
  /\ pairs' = PairsAfter(pairs, Head(todo))
  /\ todo' = Tail(todo)
  /\ UNCHANGED <<input, phase, source_tags, tags, itmf_table, last_error>>

-----------------------------------------------------------------------------
(***************************************************************************)
(* Writing to the slots.                                                   *)
(***************************************************************************)
Slots_WithoutFirst(e) ==
  {i \in 2 .. Len(itmf_table) :
     e.tag # "covr" /\ itmf_table[i].tag = e.tag /\ itmf_table[i].name = e.name}

Slots_PicturesToo(e) ==
  {i \in 1 .. Len(itmf_table) : itmf_table[i].tag = e.tag /\ itmf_table[i].name = e.name}

\* m4af_find_itmf_slot(): the slots that an entry may replace.
Slots(e) ==
  {i \in 1 .. Len(itmf_table) :
     e.tag # "covr" /\ itmf_table[i].tag = e.tag /\ itmf_table[i].name = e.name}

NewSlot(e) == [tag |-> e.tag, name |-> e.name, type_code |-> "implicit", data |-> Empty]

\* The allocations an entry may fail in: the table (which doubles), the copy
\* of the name, and the data.  At most one fails in a run (the bound on faults).
Faults(e) ==
  IF last_error THEN {} ELSE
  (IF Slots(e) = {} /\ Len(itmf_table) \in {0, 1, 2, 4, 8} THEN {"table"} ELSE {})
    \cup (IF Slots(e) = {} /\ e.tag = "----" THEN {"name"} ELSE {})
    \cup {"data"}

Noticed_TableOnly(fault) == last_error \/ fault = "table"

\* last_error after an allocation.
Noticed(fault) == last_error \/ fault # "none"

\* The table after an entry is written, or fails to be: its slot is found or
\* made, the type code is set, and then the data is replaced.
Written(e, fault) ==
  LET found == Slots(e) # {}
      i == IF found THEN Min(Slots(e)) ELSE Len(itmf_table) + 1
      table == IF found THEN itmf_table ELSE Append(itmf_table, NewSlot(e))
  IN  IF fault \in {"table", "name"} THEN itmf_table
      ELSE IF fault = "data" THEN [table EXCEPT ![i].type_code = TypeCode(e)]
      ELSE [table EXCEPT ![i].type_code = TypeCode(e), ![i].data = Content(e)]

\* aacenc_write_tag_entry(), whose callers do not ask whether it failed.
WriteEntry ==
  /\ queue # <<>>
  /\ LET e == Head(queue)
     IN  IF Content(e) = Empty THEN UNCHANGED <<itmf_table, last_error>>
         ELSE \E fault \in Faults(e) \cup {"none"} :
                /\ itmf_table' = Written(e, fault)
                /\ last_error' = Noticed(fault)
  /\ queue' = Tail(queue)
  /\ UNCHANGED <<input, phase, todo, pairs, source_tags, tags>>

-----------------------------------------------------------------------------
(***************************************************************************)
(* The order of main() and finalize_m4a().                                 *)
(***************************************************************************)
ToolTag == Entry("tool", Blank, Text("fdkaac"))
GaplessTag == Entry("----", "iTunSMPB", Text("gapless"))

Successor_OptionsFirst(p) ==
  CASE p = "options" -> "source"         [] p = "source" -> "write options"
    [] p = "write options" -> "write source" [] p = "write source" -> "json"
    [] p = "json" -> "tool"              [] p = "tool" -> "gapless"
    [] p = "gapless" -> IF last_error THEN "failed" ELSE "done"

Successor(p) ==
  CASE p = "options" -> "source"         [] p = "source" -> "write source"
    [] p = "write source" -> "json"      [] p = "json" -> "write options"
    [] p = "write options" -> "tool"     [] p = "tool" -> "gapless"
    [] p = "gapless" -> IF last_error THEN "failed" ELSE "done"

Stopped == phase \in {"done", "failed", "crashed"}

\* On to the next phase, with what it has to do.  A JSON file with members is
\* followed by a flush, and its context begins empty.
NextPhase ==
  /\ ~Stopped
  /\ todo = <<>> /\ queue = <<>>
  /\ phase' = Successor(phase)
  /\ todo' = CASE phase' = "source" -> input.source
               [] phase' = "json" ->
                    IF input.json = <<>> THEN <<>> ELSE Append(input.json, FlushCall)
               [] OTHER -> <<>>
  /\ queue' = CASE phase' = "write source" -> source_tags
                [] phase' = "write options" -> tags
                [] phase' = "tool" -> <<ToolTag>>
                [] phase' = "gapless" -> IF input.gapless THEN <<GaplessTag>> ELSE <<>>
                [] OTHER -> <<>>
  /\ pairs' = NoPairs
  /\ UNCHANGED <<input, source_tags, tags, itmf_table, last_error>>

Finished == Stopped /\ UNCHANGED vars

Init ==
  /\ input \in [options: OptionLists, source: SourceLists, json: JsonLists,
                gapless: BOOLEAN]
  /\ phase = "options"
  /\ todo = input.options
  /\ pairs = NoPairs
  /\ source_tags = <<>>
  /\ tags = <<>>
  /\ queue = <<>>
  /\ itmf_table = <<>>
  /\ last_error = FALSE

Step == AddOption \/ SourceCall \/ JsonMember \/ WriteEntry \/ NextPhase

Next == Step \/ Finished

Spec == Init /\ [][Next]_vars

-----------------------------------------------------------------------------
(***************************************************************************)
(* Properties.                                                             *)
(***************************************************************************)
IsEntry(e) == e.tag \in Codes /\ e.name \in Texts /\ e.value.text \in Texts

\* Every variable has its type; in particular no total is ever taken for a tag.
TypeOK ==
  /\ phase \in {"options", "source", "write source", "json", "write options",
                "tool", "gapless", "done", "failed", "crashed"}
  /\ \A k \in DOMAIN pairs : pairs[k] \in Nat
  /\ \A k \in 1 .. Len(source_tags) : IsEntry(source_tags[k])
  /\ \A k \in 1 .. Len(tags) : IsEntry(tags[k])
  /\ \A k \in 1 .. Len(queue) : IsEntry(queue[k])
  /\ \A k \in 1 .. Len(itmf_table) :
       itmf_table[k].tag \in Codes /\ itmf_table[k].data.text \in Texts
  /\ last_error \in BOOLEAN

\* At no time do two slots hold the same tag, pictures excepted, whatever comes
\* from where and whichever allocation fails (m4af_find_itmf_slot).
OneSlotPerTag ==
  \A i, j \in 1 .. Len(itmf_table) :
    /\ itmf_table[i].tag = itmf_table[j].tag
    /\ itmf_table[i].name = itmf_table[j].name
    /\ itmf_table[i].tag # "covr"
    => i = j

(***************************************************************************)
(* What the inputs promise, without stores, contexts or slots.             *)
(***************************************************************************)

\* The calls of a list that name one of some tags.
Naming(calls, names) ==
  {i \in 1 .. Len(calls) : calls[i].row # 0 /\ TagOfRow(calls[i].row) \in names}

\* The number and the total that a list of calls has in the end, in whichever
\* order and in whichever form they come.
NumbersIn(calls, tag) == {i \in Naming(calls, {tag}) : calls[i].value.nums # <<>>}

TotalsIn(calls, tag, total) ==
  {i \in Naming(calls, {total}) : calls[i].value.nums # <<>>}
    \cup {i \in Naming(calls, {tag}) : Len(calls[i].value.nums) = 2}

TotalOf(call, total) ==
  IF TagOfRow(call.row) = total THEN call.value.nums[1] ELSE call.value.nums[2]

PairIn(calls, tag, total) ==
  LET numbers == NumbersIn(calls, tag)
      totals == TotalsIn(calls, tag, total)
  IN  IF numbers = {} THEN Empty
      ELSE Pair(Blank, Field16(calls[Max(numbers)].value.nums[1]),
                IF totals = {} THEN 0 ELSE Field16(TotalOf(calls[Max(totals)], total)))

\* The last usable value among those of a list that are meant.
LastUsable(list, meant, tag, name) ==
  LET usable == {i \in meant : Content(Entry(tag, name, list[i].value)) # Empty}
  IN  IF usable = {} THEN Empty ELSE Content(Entry(tag, name, list[Max(usable)].value))

\* What a list of calls has for a tag, as it is to be stored.
InCalls(calls, tag) ==
  CASE tag = "trkn" -> PairIn(calls, "trkn", "total tracks")
    [] tag = "disk" -> PairIn(calls, "disk", "total discs")
    [] OTHER -> LastUsable(calls, Naming(calls, {tag}), tag, Blank)

InOptions(tag, name) ==
  LET options == input.options
  IN  LastUsable(options,
                 {i \in 1 .. Len(options) : options[i].tag = tag /\ options[i].name = name},
                 tag, name)

\* The value of a tag, the latest source that has one taking precedence.
Promised(tag, name) ==
  IF tag = "tool" THEN Content(ToolTag)
  ELSE IF input.gapless /\ tag = "----" /\ name = "iTunSMPB" THEN Content(GaplessTag)
  ELSE IF InOptions(tag, name) # Empty THEN InOptions(tag, name)
  ELSE IF name # Blank THEN Empty
  ELSE IF InCalls(input.json, tag) # Empty THEN InCalls(input.json, tag)
  ELSE InCalls(input.source, tag)

Stored(tag, name) ==
  LET found == {i \in 1 .. Len(itmf_table) :
                  itmf_table[i].tag = tag /\ itmf_table[i].name = name}
  IN  IF found = {} THEN Empty ELSE itmf_table[Min(found)].data

\* Whose names are found, and whose numbers are not 0, which stands for none.
IsPlain(call) ==
  call.row # 0 =>
    /\ FoundRow(call.row) = call.row
    /\ TagOfRow(call.row) \in {"trkn", "disk"} /\ call.value.nums # <<>> =>
         call.value.nums[1] # 0

\* Calls of that kind; those of a source end by submitting the pairs.
PlainLists ==
  /\ \A calls \in SourceLists \cup JsonLists : \A i \in 1 .. Len(calls) : IsPlain(calls[i])
  /\ \A calls \in SourceLists : calls # <<>> => Last(calls).row = 0

\* The tags there may be: by code, and by name for the long ones.
Tags ==
  {<<tag, Blank>> : tag \in Codes \ {"covr", "----"}}
    \cup {<<"----", name>> : name \in {"iTunSMPB", "mood"}}

\* In a finished file every tag has the value of the latest of source, JSON and
\* options that has a usable one: an empty or unusable value erases nothing, a
\* number is joined with its total across any order and any number of info
\* chunks, and the tool tag and iTunSMPB are the program's own.
LatestSourceWins ==
  phase = "done" => \A t \in Tags : Stored(t[1], t[2]) = Promised(t[1], t[2])

\* The pictures among the first k of a list of texts, in order, for every k.
PicturesUpto(texts) ==
  LET upto[k \in 0 .. Len(texts)] ==
        IF k = 0 THEN <<>>
        ELSE IF texts[k] \in Pictures THEN Append(upto[k - 1], texts[k]) ELSE upto[k - 1]
  IN  upto

PicturesIn(texts) == PicturesUpto(texts)[Len(texts)]

\* What a list of options or entries has for covr, and what the slots have.
Given(list) ==
  [i \in 1 .. Len(list) |-> IF list[i].tag = "covr" THEN list[i].value.text ELSE "other"]
Shown(slots) ==
  [i \in 1 .. Len(slots) |-> IF slots[i].tag = "covr" THEN slots[i].data.text ELSE "other"]

\* All pictures are kept, in the order they were given, whatever comes between
\* them and from wherever (m4af_add_itmf_*_tag).
EveryPictureKept ==
  phase = "done" => PicturesIn(Shown(itmf_table)) = PicturesIn(Given(input.options))

\* No file is reported as finished with a slot that an allocation left without
\* its data, although nobody asks the writers of tags whether they failed.
NoHalfWrittenSlot ==
  phase = "done" => \A i \in 1 .. Len(itmf_table) : itmf_table[i].data # Empty

\* metadata.c:112, "WARNING: %s: %s" for a file that cannot be opened: the
\* program goes on.
MissingFileIsSurvived == phase # "crashed"
=============================================================================
