--------------------------- MODULE TagStoreProofs ---------------------------
(***************************************************************************)
(* What the tag store does for every list of options, of source strings    *)
(* and of JSON members: proofs about TagStore.                             *)
(***************************************************************************)
EXTENDS TagStore, Induction

Entries == [tag : Codes, name : Texts, value : Values]
TypeCodes == Texts \cup {"implicit", "integer", "utf8"}
SlotSet == [tag : Codes, name : Texts, type_code : TypeCodes, data : Values]
PairSet == [Fields -> Nat]
Phases == {"options", "source", "write source", "json", "write options",
           "tool", "gapless", "done", "failed", "crashed"}

-----------------------------------------------------------------------------
(***************************************************************************)
(* Types of the operators.                                                 *)
(***************************************************************************)

\* Values are built from texts and from one or two numbers.
LEMMA ValueTypes ==
  /\ \A t \in Texts : Text(t) \in Values
  /\ Empty \in Values
  /\ \A t \in Texts, n \in Nat : Number(t, n) \in Values
  /\ \A t \in Texts, m, n \in Nat : Pair(t, m, n) \in Values
<1>1. \A t \in Texts, s \in Seq(Nat) : [text |-> t, nums |-> s] \in Values
  BY DEF Values
<1>2. <<>> \in Seq(Nat)
  OBVIOUS
<1>3. \A n \in Nat : <<n>> \in Seq(Nat)
  OBVIOUS
<1>4. \A m, n \in Nat : <<m, n>> \in Seq(Nat)
  OBVIOUS
<1>5. \A t \in Texts : Text(t) \in Values
  BY <1>1, <1>2 DEF Text
<1> QED
  BY <1>1, <1>3, <1>4, <1>5, TextsAssumption DEF Empty, Number, Pair

\* The numbers that sscanf() finds.
LEMMA NumbersOf ==
  ASSUME NEW nums \in Seq(Nat)
  PROVE  /\ Len(nums) \in Nat
         /\ nums # <<>> => nums[1] \in Nat
         /\ Len(nums) >= 1 => nums[1] \in Nat
         /\ Len(nums) = 2 => nums[2] \in Nat
<1>1. \A i \in 1 .. Len(nums) : nums[i] \in Nat
  OBVIOUS
<1>2. Len(nums) \in Nat /\ (nums # <<>> => Len(nums) >= 1)
  OBVIOUS
<1> QED
  BY <1>1, <1>2

\* What is stored for an entry is a value, with a type code.
LEMMA ContentType ==
  ASSUME NEW e \in Entries
  PROVE  Content(e) \in Values /\ TypeCode(e) \in TypeCodes
<1>1. e.value.nums \in Seq(Nat) /\ e.value.text \in Texts /\ e.tag \in Codes
  BY DEF Entries, Values
<1> DEFINE n == e.value.nums
<1>2. (n # <<>> => n[1] \in Nat) /\ (Len(n) = 2 => n[2] \in Nat)
  BY <1>1, NumbersOf
<1>3. \A k \in Nat : Field16(k) \in Nat /\ Field8(k) \in Nat
  BY DEF Field16, Field8
<1>4. Blank \in Texts
  BY TextsAssumption
<1> HIDE DEF n
<1>5. n # <<>> => /\ Pair(Blank, Field16(n[1]), IF Len(n) = 2 THEN Field16(n[2]) ELSE 0) \in Values
                  /\ Number(Blank, Field16(n[1])) \in Values
                  /\ Number(Blank, Field8(n[1])) \in Values
  BY <1>2, <1>3, <1>4, ValueTypes
<1>6. Content(e) \in Values
  BY <1>1, <1>5, ValueTypes DEF Content, n
<1>7. TypeCode(e) \in TypeCodes
  BY <1>1 DEF TypeCode, TypeCodes
<1> QED
  BY <1>6, <1>7

\* An entry of known parts.
LEMMA EntryType ==
  \A t \in Codes, n \in Texts, v \in Values :
    Entry(t, n, v) \in Entries /\ <<Entry(t, n, v)>> \in Seq(Entries)
BY DEF Entry, Entries

\* A call adds entries, never one for a total, and keeps the context's type.
LEMMA CallTypes ==
  ASSUME NEW ctx \in PairSet, NEW call \in CallSet
  PROVE  Added(ctx, call) \in Seq(Entries) /\ PairsAfter(ctx, call) \in PairSet
<1> DEFINE tag == TagOfRow(FoundRow(call.row))
           nums == call.value.nums
<1>1. tag \in {"trkn", "disk", "total tracks", "total discs", "tmpo", "cpil", "text"}
  BY DEF TagOfRow
<1>2. call.value \in Values /\ nums \in Seq(Nat)
  BY DEF CallSet, Values
<1>3. Blank \in Texts /\ "n" \in Texts /\ "n/t" \in Texts
  BY TextsAssumption
<1>4. \A f \in Fields : ctx[f] \in Nat
  BY DEF PairSet
<1>5. \A t \in {"trkn", "disk"}, m, n \in Nat : Submitted(t, m, n) \in Seq(Entries)
  <2> TAKE t \in {"trkn", "disk"}, m, n \in Nat
  <2>1. t \in Codes
    BY DEF Codes
  <2>2. /\ <<Entry(t, Blank, Number("n", m))>> \in Seq(Entries)
        /\ <<Entry(t, Blank, Pair("n/t", m, n))>> \in Seq(Entries)
    BY <2>1, <1>3, ValueTypes, EntryType
  <2> QED
    BY <2>2 DEF Submitted
<1>6. Added(ctx, call) \in Seq(Entries)
  <2>1. CASE call.row = 0
    <3>1. /\ Submitted("trkn", ctx["track"], ctx["track_total"]) \in Seq(Entries)
          /\ Submitted("disk", ctx["disc"], ctx["disc_total"]) \in Seq(Entries)
      BY <1>4, <1>5 DEF Fields
    <3> QED
      BY <2>1, <3>1 DEF Added
  <2>2. CASE call.row # 0
    <3>1. tag \in Codes => <<Entry(tag, Blank, call.value)>> \in Seq(Entries)
      BY <1>2, <1>3, EntryType
    <3>2. tag \notin {"trkn", "disk", "total tracks", "total discs"} => tag \in Codes
      BY <1>1 DEF Codes
    <3>3. <<>> \in Seq(Entries)
      OBVIOUS
    <3> HIDE DEF tag
    <3> QED
      BY <2>2, <3>1, <3>2, <3>3, Zenon DEF Added, tag
  <2> QED
    BY <2>1, <2>2
<1>7. PairsAfter(ctx, call) \in PairSet
  <2>1. /\ Len(nums) \in Nat
        /\ Len(nums) >= 1 => nums[1] \in Nat
        /\ Len(nums) = 2 => nums[2] \in Nat
    BY <1>2, NumbersOf
  <2> HIDE DEF nums, tag
  <2>2. \A number, total \in Fields : WithPair(ctx, number, total, nums) \in PairSet
    BY <2>1 DEF WithPair, PairSet
  <2>3. \A total \in Fields : WithTotal(ctx, total, nums) \in PairSet
    BY <2>1 DEF WithTotal, PairSet
  <2>4. /\ WithPair(ctx, "track", "track_total", nums) \in PairSet
        /\ WithPair(ctx, "disc", "disc_total", nums) \in PairSet
        /\ WithTotal(ctx, "track_total", nums) \in PairSet
        /\ WithTotal(ctx, "disc_total", nums) \in PairSet
    BY <2>2, <2>3 DEF Fields
  <2> QED
    BY <2>4, <1>1 DEF PairsAfter, nums, tag
<1> QED
  BY <1>6, <1>7

-----------------------------------------------------------------------------
(***************************************************************************)
(* Slots.                                                                  *)
(***************************************************************************)

\* A table in which no tag has two slots, and one without an empty slot.
OneSlotIn(table) ==
  \A i, j \in 1 .. Len(table) :
    /\ table[i].tag = table[j].tag
    /\ table[i].name = table[j].name
    /\ table[i].tag # "covr"
    => i = j

Filled(table) == \A i \in 1 .. Len(table) : table[i].data # Empty

\* An entry that finds no slot makes one at the end, and fills it unless the
\* allocation of its data fails.
LEMMA SlotMade ==
  ASSUME itmf_table \in Seq(SlotSet), OneSlotIn(itmf_table),
         NEW e \in Entries, NEW fault, Content(e) # Empty,
         fault \notin {"table", "name"}, Slots(e) = {}
  PROVE  LET t == Written(e, fault)
         IN  /\ t \in Seq(SlotSet)
             /\ OneSlotIn(t)
             /\ Filled(itmf_table) /\ fault # "data" => Filled(t)
             /\ Len(t) = Len(itmf_table) + 1
             /\ \A k \in 1 .. Len(itmf_table) : t[k] = itmf_table[k]
             /\ t[Len(t)].tag = e.tag /\ t[Len(t)].name = e.name
             /\ fault # "data" => t[Len(t)].data = Content(e)
<1> DEFINE n == Len(itmf_table) + 1
           table == Append(itmf_table, NewSlot(e))
           t == Written(e, fault)
<1>1. /\ e.tag \in Codes /\ e.name \in Texts
      /\ Content(e) \in Values /\ TypeCode(e) \in TypeCodes
  BY ContentType DEF Entries
<1>2. NewSlot(e) \in SlotSet /\ NewSlot(e).tag = e.tag /\ NewSlot(e).name = e.name
  BY <1>1, ValueTypes DEF NewSlot, SlotSet, TypeCodes
<1>3. /\ table \in Seq(SlotSet) /\ Len(table) = n /\ n \in 1 .. Len(table)
      /\ table[n] = NewSlot(e)
      /\ \A k \in 1 .. Len(itmf_table) : table[k] = itmf_table[k]
  BY <1>2
<1>4. \A k \in 1 .. Len(itmf_table) :
        ~(e.tag # "covr" /\ itmf_table[k].tag = e.tag /\ itmf_table[k].name = e.name)
  BY DEF Slots
<1> DEFINE s == IF fault = "data" THEN [NewSlot(e) EXCEPT !.type_code = TypeCode(e)]
                ELSE [NewSlot(e) EXCEPT !.type_code = TypeCode(e), !.data = Content(e)]
<1>5. /\ s \in SlotSet /\ s.tag = e.tag /\ s.name = e.name
      /\ fault # "data" => s.data = Content(e)
  BY <1>1, <1>2 DEF SlotSet
<1> HIDE DEF table
<1>6. t = [table EXCEPT ![n] = s]
  BY <1>3 DEF Written, table
<1> HIDE DEF s, t
<1>7. /\ t \in Seq(SlotSet) /\ Len(t) = n /\ t[n] = s
      /\ \A k \in 1 .. Len(itmf_table) : t[k] = itmf_table[k]
  BY <1>3, <1>5, <1>6
<1>8. \A k \in 1 .. Len(t) : k = n \/ k \in 1 .. Len(itmf_table)
  BY <1>7
<1>9. OneSlotIn(t)
  <2> SUFFICES ASSUME NEW i \in 1 .. Len(t), NEW j \in 1 .. Len(t),
                      t[i].tag = t[j].tag, t[i].name = t[j].name, t[i].tag # "covr"
               PROVE  i = j
    BY DEF OneSlotIn
  <2>1. CASE i \in 1 .. Len(itmf_table) /\ j \in 1 .. Len(itmf_table)
    BY <2>1, <1>7 DEF OneSlotIn
  <2>2. CASE i = n /\ j \in 1 .. Len(itmf_table)
    BY <2>2, <1>4, <1>5, <1>7
  <2>3. CASE j = n /\ i \in 1 .. Len(itmf_table)
    BY <2>3, <1>4, <1>5, <1>7
  <2> QED
    BY <2>1, <2>2, <2>3, <1>8
<1>10. Filled(itmf_table) /\ fault # "data" => Filled(t)
  BY <1>5, <1>7, <1>8 DEF Filled
<1>11. /\ Len(t) = Len(itmf_table) + 1 /\ t[Len(t)].tag = e.tag /\ t[Len(t)].name = e.name
       /\ fault # "data" => t[Len(t)].data = Content(e)
  BY <1>5, <1>7
<1> QED
  BY <1>7, <1>9, <1>10, <1>11 DEF t

\* An entry that finds a slot finds the only one, and changes nothing else.
LEMMA SlotFound ==
  ASSUME itmf_table \in Seq(SlotSet), OneSlotIn(itmf_table),
         NEW e \in Entries, NEW fault, Content(e) # Empty,
         fault \notin {"table", "name"}, Slots(e) # {}
  PROVE  LET t == Written(e, fault)
         IN  /\ t \in Seq(SlotSet)
             /\ OneSlotIn(t)
             /\ Filled(itmf_table) /\ fault # "data" => Filled(t)
             /\ Len(t) = Len(itmf_table)
             /\ \A k \in 1 .. Len(t) :
                  /\ t[k].tag = itmf_table[k].tag /\ t[k].name = itmf_table[k].name
                  /\ IF k \in Slots(e) THEN fault # "data" => t[k].data = Content(e)
                                       ELSE t[k] = itmf_table[k]
<1> DEFINE t == Written(e, fault)
<1>1. Content(e) \in Values /\ TypeCode(e) \in TypeCodes
  BY ContentType
<1>2. PICK n \in Slots(e) : TRUE
  OBVIOUS
<1>3. n \in 1 .. Len(itmf_table) /\ n \in Int
  BY <1>2 DEF Slots
<1>4. Slots(e) = {n}
  BY <1>2 DEF Slots, OneSlotIn
<1>5. Min({n}) = n
  BY <1>3 DEF Min
<1> DEFINE s == IF fault = "data" THEN [itmf_table[n] EXCEPT !.type_code = TypeCode(e)]
                ELSE [itmf_table[n] EXCEPT !.type_code = TypeCode(e), !.data = Content(e)]
<1>6. itmf_table[n] \in SlotSet
  BY <1>3
<1>7. /\ s \in SlotSet /\ s.tag = itmf_table[n].tag /\ s.name = itmf_table[n].name
      /\ fault # "data" => s.data = Content(e)
  BY <1>1, <1>6 DEF SlotSet
<1>8. t = [itmf_table EXCEPT ![n] = s]
  BY <1>3, <1>4, <1>5 DEF Written
<1> HIDE DEF s, t
<1>9. /\ t \in Seq(SlotSet) /\ Len(t) = Len(itmf_table) /\ t[n] = s
      /\ \A k \in 1 .. Len(itmf_table) : k # n => t[k] = itmf_table[k]
  BY <1>3, <1>7, <1>8
<1>10. \A k \in 1 .. Len(t) : t[k].tag = itmf_table[k].tag /\ t[k].name = itmf_table[k].name
  BY <1>7, <1>9
<1>11. OneSlotIn(t)
  BY <1>9, <1>10 DEF OneSlotIn
<1>12. Filled(itmf_table) /\ fault # "data" => Filled(t)
  BY <1>7, <1>9 DEF Filled
<1>13. \A k \in 1 .. Len(t) : IF k \in Slots(e) THEN fault # "data" => t[k].data = Content(e)
                                                 ELSE t[k] = itmf_table[k]
  BY <1>4, <1>7, <1>9
<1> QED
  BY <1>9, <1>10, <1>11, <1>12, <1>13 DEF t

-----------------------------------------------------------------------------
(***************************************************************************)
(* Pictures in lists.                                                      *)
(***************************************************************************)

\* The recursion of PicturesUpto(), unfolded.
LEMMA PicturesDef ==
  ASSUME NEW texts, Len(texts) \in Nat
  PROVE  /\ PicturesUpto(texts)[0] = <<>>
         /\ \A k \in 1 .. Len(texts) :
              PicturesUpto(texts)[k] =
                IF texts[k] \in Pictures THEN Append(PicturesUpto(texts)[k - 1], texts[k])
                                         ELSE PicturesUpto(texts)[k - 1]
         /\ \A k \in 0 .. Len(texts) : PicturesUpto(texts)[k] \in Seq(Pictures)
<1> DEFINE n == Len(texts)
           upto == PicturesUpto(texts)
           Next1(k, v) == IF texts[k] \in Pictures THEN Append(v, texts[k]) ELSE v
           Steps == [k \in Nat |-> [v \in Seq(Pictures) |-> Next1(k, v)]]
<1>1. \A k \in Nat, v \in Seq(Pictures) : Next1(k, v) \in Seq(Pictures)
  OBVIOUS
<1>2. Steps \in [Nat -> [Seq(Pictures) -> Seq(Pictures)]]
  <2> HIDE DEF Next1
  <2> QED
    BY <1>1
<1>3. <<>> \in Seq(Pictures) /\ n \in Nat
  OBVIOUS
<1>4. \A k \in Nat, v \in Seq(Pictures) : Steps[k][v] = Next1(k, v)
  <2> HIDE DEF Next1
  <2> QED
    OBVIOUS
<1>5. PICK g \in [0 .. n -> Seq(Pictures)] :
        g[0] = <<>> /\ \A k \in 1 .. n : g[k] = Steps[k][g[k - 1]]
  <2> HIDE DEF Steps, n
  <2>1. \E g : Unfolds(g, Seq(Pictures), n, <<>>, Steps)
    BY <1>2, <1>3, Recursion
  <2> QED
    BY <2>1 DEF Unfolds
<1>6. \A k \in 1 .. n : g[k] = Next1(k, g[k - 1])
  <2> HIDE DEF Next1, n, Steps
  <2>1. \A k \in 1 .. n : k \in Nat /\ k - 1 \in 0 .. n
    BY <1>3
  <2> QED
    BY <1>5, <1>4, <2>1
<1>7. g = [k \in 0 .. n |-> IF k = 0 THEN <<>> ELSE Next1(k, g[k - 1])]
  <2> HIDE DEF Next1
  <2> QED
    BY <1>5, <1>6
<1>8. upto = [k \in 0 .. n |-> IF k = 0 THEN <<>> ELSE Next1(k, upto[k - 1])]
  BY <1>7 DEF PicturesUpto
<1> DEFINE T == {k \in Nat : k <= n => upto[k] \in Seq(Pictures)}
<1>9. upto[0] = <<>> /\ \A k \in 1 .. n : upto[k] = Next1(k, upto[k - 1])
  <2> HIDE DEF upto, Next1
  <2> QED
    BY <1>8
<1>10. \A k \in 0 .. n : k \in T
  <2> HIDE DEF upto, Next1, n
  <2>1. 0 \in T
    BY <1>3, <1>9
  <2>2. ASSUME NEW k \in 0 .. (n - 1), k \in T PROVE k + 1 \in T
    <3>1. k + 1 \in 1 .. n /\ (k + 1) - 1 = k /\ k \in Nat /\ k <= n /\ k + 1 \in Nat
      BY DEF n
    <3>2. upto[k] \in Seq(Pictures) /\ upto[k + 1] = Next1(k + 1, upto[k])
      BY <1>9, <2>2, <3>1
    <3> QED
      BY <1>1, <3>1, <3>2
  <2> HIDE DEF T
  <2> QED
    BY <2>1, <2>2, UpTo DEF n
<1> QED
  BY <1>9, <1>10

\* Lists that begin alike have the same pictures as far as they do.
LEMMA PicturesAgree ==
  ASSUME NEW s, NEW t, NEW n \in Nat, Len(s) \in Nat, Len(t) \in Nat,
         n <= Len(s), n <= Len(t), \A k \in 1 .. n : s[k] = t[k]
  PROVE  \A k \in 0 .. n : PicturesUpto(s)[k] = PicturesUpto(t)[k]
<1> DEFINE T == {k \in Nat : PicturesUpto(s)[k] = PicturesUpto(t)[k]}
<1>1. 0 \in T
  BY PicturesDef
<1>2. ASSUME NEW k \in 0 .. (n - 1), k \in T PROVE k + 1 \in T
  <2>1. /\ k + 1 \in 1 .. n /\ k + 1 \in 1 .. Len(s) /\ k + 1 \in 1 .. Len(t)
        /\ (k + 1) - 1 = k /\ k + 1 \in Nat
    OBVIOUS
  <2>2. s[k + 1] = t[k + 1] /\ PicturesUpto(s)[k] = PicturesUpto(t)[k]
    BY <1>2, <2>1
  <2>3. PicturesUpto(s)[k + 1] = IF s[k + 1] \in Pictures
                                  THEN Append(PicturesUpto(s)[k], s[k + 1])
                                  ELSE PicturesUpto(s)[k]
    BY <2>1, PicturesDef
  <2>4. PicturesUpto(t)[k + 1] = IF t[k + 1] \in Pictures
                                  THEN Append(PicturesUpto(t)[k], t[k + 1])
                                  ELSE PicturesUpto(t)[k]
    BY <2>1, PicturesDef
  <2> QED
    BY <2>1, <2>2, <2>3, <2>4
<1> HIDE DEF T
<1>3. \A k \in 0 .. n : k \in T
  BY <1>1, <1>2, UpTo
<1> QED
  BY <1>3 DEF T

\* One more text at the end is one more picture, if it is one.
LEMMA PicturesLonger ==
  ASSUME NEW s, NEW t, Len(s) \in Nat, Len(t) = Len(s) + 1,
         \A k \in 1 .. Len(s) : s[k] = t[k]
  PROVE  PicturesIn(t) = IF t[Len(t)] \in Pictures
                           THEN Append(PicturesIn(s), t[Len(t)]) ELSE PicturesIn(s)
<1> DEFINE n == Len(s)
<1>1. n \in Nat /\ n + 1 \in 1 .. Len(t) /\ (n + 1) - 1 = n /\ n \in 0 .. n
      /\ n <= Len(t) /\ n <= Len(s) /\ Len(t) \in Nat
  OBVIOUS
<1>2. PicturesUpto(s)[n] = PicturesUpto(t)[n]
  BY <1>1, PicturesAgree
<1>3. PicturesUpto(t)[n + 1] = IF t[n + 1] \in Pictures
                                 THEN Append(PicturesUpto(t)[n], t[n + 1])
                                 ELSE PicturesUpto(t)[n]
  BY <1>1, PicturesDef
<1> QED
  BY <1>2, <1>3 DEF PicturesIn

\* Lists of the same texts have the same pictures.
LEMMA PicturesSame ==
  ASSUME NEW s, NEW t, Len(s) \in Nat, Len(t) = Len(s), \A k \in 1 .. Len(s) : s[k] = t[k]
  PROVE  PicturesIn(t) = PicturesIn(s)
<1>1. Len(s) <= Len(s) /\ Len(s) <= Len(t) /\ Len(s) \in 0 .. Len(s)
  OBVIOUS
<1>2. \A k \in 0 .. Len(s) : PicturesUpto(s)[k] = PicturesUpto(t)[k]
  BY <1>1, PicturesAgree
<1> QED
  BY <1>1, <1>2 DEF PicturesIn

-----------------------------------------------------------------------------
(***************************************************************************)
(* The inductive invariant.  That nobody asks the writers of tags whether  *)
(* they failed does no harm, because last_error remembers it until the     *)
(* file is closed.                                                         *)
(***************************************************************************)

\* What the types of the inputs make of the other variables.
Types ==
  /\ input.source \in Seq(CallSet) /\ input.json \in Seq(CallSet)
  /\ phase \in Phases
  /\ phase = "options" => todo \in Seq(OptionSet)
  /\ phase \in {"source", "json"} => todo \in Seq(CallSet)
  /\ pairs \in PairSet
  /\ source_tags \in Seq(Entries)
  /\ tags \in Seq(Entries)
  /\ queue \in Seq(Entries)
  /\ itmf_table \in Seq(SlotSet)
  /\ last_error \in BOOLEAN

\* Nothing is left to write in the first phases and in the end, and what was
\* left without data has been noticed.
Noted ==
  /\ phase \in {"options", "source", "done", "failed", "crashed"} => queue = <<>>
  /\ phase = "done" => ~last_error
  /\ ~last_error => Filled(itmf_table)

TagInv == Types /\ OneSlotIn(itmf_table) /\ Noted

LEMMA InitInv == Init => TagInv
<1> SUFFICES ASSUME Init PROVE TagInv
  OBVIOUS
<1>1. /\ input.options \in Seq(OptionSet)
      /\ input.source \in Seq(CallSet) /\ input.json \in Seq(CallSet)
  BY InputsAssumption DEF Init
<1>2. NoPairs \in PairSet
  BY DEF NoPairs, PairSet
<1>3. Types
  <2>1. /\ <<>> \in Seq(Entries) /\ <<>> \in Seq(SlotSet)
        /\ phase = "options" /\ phase \in Phases
    BY DEF Init, Phases
  <2>2. todo \in Seq(OptionSet)
    BY <1>1 DEF Init
  <2>3. /\ source_tags = <<>> /\ tags = <<>> /\ queue = <<>> /\ itmf_table = <<>>
        /\ pairs = NoPairs /\ last_error = FALSE
    BY DEF Init
  <2> QED
    BY <1>1, <1>2, <2>1, <2>2, <2>3 DEF Types
<1>4. OneSlotIn(itmf_table) /\ Filled(itmf_table)
  BY DEF Init, OneSlotIn, Filled
<1> QED
  BY <1>3, <1>4 DEF TagInv, Noted, Init

LEMMA AddOptionInv == TagInv /\ AddOption => TagInv'
<1> SUFFICES ASSUME TagInv, AddOption PROVE TagInv'
  OBVIOUS
<1>1. todo \in Seq(OptionSet) /\ todo # <<>>
  BY DEF TagInv, Types, AddOption
<1>2. Head(todo) \in OptionSet /\ Tail(todo) \in Seq(OptionSet)
  BY <1>1
<1> DEFINE o == Head(todo)
<1>3. Entry(o.tag, o.name, o.value) \in Entries
  BY <1>2, EntryType DEF OptionSet
<1>4. tags' \in Seq(Entries)
  <2>1. tags' = tags \/ tags' = Append(tags, Entry(o.tag, o.name, o.value))
    BY DEF AddOption
  <2>2. tags \in Seq(Entries)
    BY DEF TagInv, Types
  <2> QED
    BY <1>3, <2>1, <2>2
<1>5. phase' \in {"options", "crashed"} /\ todo' = Tail(todo)
  BY DEF AddOption
<1>6. /\ UNCHANGED <<input, pairs, source_tags, queue, itmf_table, last_error>>
      /\ phase = "options"
  BY DEF AddOption
<1>7. Types'
  BY <1>2, <1>4, <1>5, <1>6 DEF TagInv, Types, Phases
<1> QED
  BY <1>5, <1>6, <1>7 DEF TagInv, Noted, OneSlotIn, Filled

LEMMA SourceCallInv == TagInv /\ SourceCall => TagInv'
<1> SUFFICES ASSUME TagInv, SourceCall PROVE TagInv'
  OBVIOUS
<1>1. todo \in Seq(CallSet) /\ todo # <<>>
  BY DEF TagInv, Types, SourceCall
<1>2. Head(todo) \in CallSet /\ Tail(todo) \in Seq(CallSet)
  BY <1>1
<1>3. /\ Added(pairs, Head(todo)) \in Seq(Entries)
      /\ PairsAfter(pairs, Head(todo)) \in PairSet
  BY <1>2, CallTypes DEF TagInv, Types
<1>4. source_tags' \in Seq(Entries) /\ pairs' \in PairSet /\ todo' \in Seq(CallSet)
  BY <1>2, <1>3 DEF SourceCall, TagInv, Types
<1>5. /\ UNCHANGED <<input, phase, tags, queue, itmf_table, last_error>>
      /\ phase = "source"
  BY DEF SourceCall
<1>6. Types'
  BY <1>4, <1>5 DEF TagInv, Types, Phases
<1> QED
  BY <1>5, <1>6 DEF TagInv, Noted, OneSlotIn, Filled

LEMMA JsonMemberInv == TagInv /\ JsonMember => TagInv'
<1> SUFFICES ASSUME TagInv, JsonMember PROVE TagInv'
  OBVIOUS
<1>1. todo \in Seq(CallSet) /\ todo # <<>>
  BY DEF TagInv, Types, JsonMember
<1>2. Head(todo) \in CallSet /\ Tail(todo) \in Seq(CallSet)
  BY <1>1
<1>3. /\ Added(pairs, Head(todo)) \in Seq(Entries)
      /\ PairsAfter(pairs, Head(todo)) \in PairSet
  BY <1>2, CallTypes DEF TagInv, Types
<1>4. queue' \in Seq(Entries) /\ pairs' \in PairSet /\ todo' \in Seq(CallSet)
  BY <1>2, <1>3 DEF JsonMember
<1>5. /\ UNCHANGED <<input, phase, source_tags, tags, itmf_table, last_error>>
      /\ phase = "json"
  BY DEF JsonMember
<1>6. Types'
  BY <1>4, <1>5 DEF TagInv, Types, Phases
<1> QED
  BY <1>5, <1>6 DEF TagInv, Noted, OneSlotIn, Filled

LEMMA WriteEntryInv == TagInv /\ WriteEntry => TagInv'
<1> SUFFICES ASSUME TagInv, WriteEntry PROVE TagInv'
  OBVIOUS
<1> DEFINE e == Head(queue)
<1>1. queue \in Seq(Entries) /\ queue # <<>>
  BY DEF TagInv, Types, WriteEntry
<1>2. e \in Entries /\ queue' \in Seq(Entries)
  BY <1>1 DEF WriteEntry
<1>3. /\ UNCHANGED <<input, phase, todo, pairs, source_tags, tags>>
      /\ phase \notin {"options", "source", "done", "failed", "crashed"}
  BY <1>1 DEF WriteEntry, TagInv, Noted
<1>4. /\ itmf_table' \in Seq(SlotSet) /\ OneSlotIn(itmf_table')
      /\ last_error' \in BOOLEAN
      /\ ~last_error' => Filled(itmf_table')
  <2>1. CASE Content(e) = Empty
    BY <2>1 DEF WriteEntry, TagInv, Types, Noted
  <2>2. CASE Content(e) # Empty
    <3>1. PICK fault \in Faults(e) \cup {"none"} :
            itmf_table' = Written(e, fault) /\ last_error' = Noticed(fault)
      BY <2>2 DEF WriteEntry
    <3>2. /\ itmf_table \in Seq(SlotSet) /\ OneSlotIn(itmf_table)
          /\ last_error \in BOOLEAN /\ (~last_error => Filled(itmf_table))
      BY DEF TagInv, Types, Noted
    <3>3. CASE fault \in {"table", "name"}
      BY <3>1, <3>2, <3>3 DEF Written, Noticed
    <3>4. CASE fault \notin {"table", "name"}
      <4>1. /\ itmf_table' \in Seq(SlotSet) /\ OneSlotIn(itmf_table')
            /\ Filled(itmf_table) /\ fault # "data" => Filled(itmf_table')
        BY <1>2, <2>2, <3>1, <3>2, <3>4, SlotMade, SlotFound
      <4> QED
        BY <3>1, <3>2, <4>1 DEF Noticed
    <3> QED
      BY <3>3, <3>4
  <2> QED
    BY <2>1, <2>2
<1>5. Types'
  BY <1>2, <1>3, <1>4 DEF TagInv, Types, Phases
<1> QED
  BY <1>3, <1>4, <1>5 DEF TagInv, Noted

LEMMA NextPhaseInv == TagInv /\ NextPhase => TagInv'
<1> SUFFICES ASSUME TagInv, NextPhase PROVE TagInv'
  OBVIOUS
<1>1. /\ phase \in Phases \ {"done", "failed", "crashed"}
      /\ phase' = Successor(phase)
      /\ UNCHANGED <<input, source_tags, tags, itmf_table, last_error>>
  BY DEF NextPhase, TagInv, Types, Stopped
<1>2. /\ phase' \in Phases \ {"options", "crashed"}
      /\ phase' = "done" => ~last_error
  BY <1>1 DEF Successor, Phases
<1>3. pairs' \in PairSet
  BY DEF NextPhase, NoPairs, PairSet
<1>4. FlushCall \in CallSet
  BY ValueTypes DEF FlushCall, Call, CallSet
<1>5. phase' \in {"source", "json"} => todo' \in Seq(CallSet)
  <2>1. input.source \in Seq(CallSet) /\ Append(input.json, FlushCall) \in Seq(CallSet)
    BY <1>4 DEF TagInv, Types
  <2>2. <<>> \in Seq(CallSet)
    OBVIOUS
  <2>3. phase' = "source" => todo' = input.source
    BY DEF NextPhase
  <2>4. phase' = "json" => todo' = <<>> \/ todo' = Append(input.json, FlushCall)
    BY DEF NextPhase
  <2> QED
    BY <2>1, <2>2, <2>3, <2>4
<1>6. /\ ToolTag \in Entries
      /\ GaplessTag \in Entries
  BY TextsAssumption, ValueTypes, EntryType DEF ToolTag, GaplessTag, Codes
<1>7. /\ queue' \in Seq(Entries)
      /\ phase' \in {"source", "done", "failed"} => queue' = <<>>
  <2>1. /\ source_tags \in Seq(Entries) /\ tags \in Seq(Entries)
        /\ <<>> \in Seq(Entries)
        /\ <<ToolTag>> \in Seq(Entries) /\ <<GaplessTag>> \in Seq(Entries)
    BY <1>6 DEF TagInv, Types
  <2>2. queue' \in {source_tags, tags, <<>>, <<ToolTag>>, <<GaplessTag>>}
    BY DEF NextPhase
  <2>3. phase' \in {"source", "done", "failed"} => queue' = <<>>
    BY DEF NextPhase
  <2> QED
    BY <2>1, <2>2, <2>3
<1>8. Types'
  BY <1>1, <1>2, <1>3, <1>5, <1>7 DEF TagInv, Types
<1> QED
  BY <1>1, <1>2, <1>7, <1>8 DEF TagInv, Noted, OneSlotIn, Filled

\* The invariant holds throughout, whatever comes from where and whichever
\* allocation fails.
THEOREM TagInvariant == Spec => []TagInv
<1>1. TagInv /\ [Next]_vars => TagInv'
  <2> SUFFICES ASSUME TagInv, [Next]_vars PROVE TagInv'
    OBVIOUS
  <2>1. CASE UNCHANGED vars
    BY <2>1 DEF vars, TagInv, Types, Noted, OneSlotIn, Filled
  <2> QED
    BY <2>1, AddOptionInv, SourceCallInv, JsonMemberInv, WriteEntryInv, NextPhaseInv
       DEF Next, Step, Finished
<1> QED
  BY <1>1, InitInv, PTL DEF Spec

\* Type correctness: in particular no total is ever taken for a tag.
THEOREM TagTypes == Spec => []TypeOK
<1>1. TagInv => TypeOK
  <2> SUFFICES ASSUME TagInv PROVE TypeOK
    OBVIOUS
  <2>1. \A e \in Entries : IsEntry(e)
    BY DEF IsEntry, Entries, Values
  <2>2. \A s \in SlotSet : s.tag \in Codes /\ s.data.text \in Texts
    BY DEF SlotSet, Values
  <2>3. /\ \A k \in 1 .. Len(source_tags) : IsEntry(source_tags[k])
        /\ \A k \in 1 .. Len(tags) : IsEntry(tags[k])
        /\ \A k \in 1 .. Len(queue) : IsEntry(queue[k])
    BY <2>1 DEF TagInv, Types
  <2>4. \A k \in 1 .. Len(itmf_table) :
          itmf_table[k].tag \in Codes /\ itmf_table[k].data.text \in Texts
    BY <2>2 DEF TagInv, Types
  <2>5. \A k \in DOMAIN pairs : pairs[k] \in Nat
    BY DEF TagInv, Types, PairSet
  <2> QED
    BY <2>3, <2>4, <2>5 DEF TagInv, Types, TypeOK, Phases
<1> QED
  BY <1>1, TagInvariant, PTL

\* No two slots hold the same tag, pictures excepted, for all lists of options,
\* source strings and JSON members (m4af_find_itmf_slot).
THEOREM TagSlots == Spec => []OneSlotPerTag
<1>1. TagInv => OneSlotPerTag
  BY DEF TagInv, OneSlotIn, OneSlotPerTag
<1> QED
  BY <1>1, TagInvariant, PTL

\* A file reported as finished has no slot without data, although the callers
\* of m4af_add_itmf_*_tag() do not look at the result.
THEOREM TagFilled == Spec => []NoHalfWrittenSlot
<1>1. TagInv => NoHalfWrittenSlot
  BY DEF TagInv, Noted, Filled, NoHalfWrittenSlot
<1> QED
  BY <1>1, TagInvariant, PTL

-----------------------------------------------------------------------------
(***************************************************************************)
(* Pictures.  They only come from options, and only options are written    *)
(* when they are: what is in the slots are the pictures of that part of    *)
(* the list that has been written, as long as no allocation failed.        *)
(***************************************************************************)

\* What is left of a list is its end.
IsRestOf(rest, list) ==
  /\ Len(rest) <= Len(list)
  /\ \A k \in 1 .. Len(rest) : rest[k] = list[Len(list) - Len(rest) + k]

NoPicture(entries) == \A k \in 1 .. Len(entries) : entries[k].tag # "covr"

\* The pictures in the slots are those of the part of a list before its rest.
ShownOf(list, rest) ==
  ~last_error =>
    PicturesIn(Shown(itmf_table)) = PicturesUpto(Given(list))[Len(list) - Len(rest)]

\* Options become entries, in order.
OptionsInv ==
  /\ input.options \in Seq(OptionSet)
  /\ phase = "options" =>
       /\ IsRestOf(todo, input.options)
       /\ PicturesIn(Given(tags))
            = PicturesUpto(Given(input.options))[Len(input.options) - Len(todo)]
  /\ phase \notin {"options", "crashed"} =>
       PicturesIn(Given(tags)) = PicturesIn(Given(input.options))

\* Before the entries of the options are written there is no picture in the
\* slots; afterwards there are all of them.
SlotsInv ==
  /\ NoPicture(source_tags)
  /\ phase # "write options" => NoPicture(queue)
  /\ phase \in {"options", "source", "write source", "json"} =>
       PicturesIn(Shown(itmf_table)) = <<>>
  /\ phase = "write options" => IsRestOf(queue, tags) /\ ShownOf(tags, queue)
  /\ phase \in {"tool", "gapless", "done"} =>
       (~last_error => PicturesIn(Shown(itmf_table)) = PicturesIn(Given(tags)))

PicturesInv == OptionsInv /\ SlotsInv

\* Lists and slots as lists of texts.
LEMMA GivenTexts ==
  ASSUME NEW S, NEW list \in Seq(S)
  PROVE  /\ Len(Given(list)) = Len(list) /\ Len(list) \in Nat
         /\ \A k \in 1 .. Len(list) :
              Given(list)[k] = IF list[k].tag = "covr" THEN list[k].value.text ELSE "other"
BY DEF Given

LEMMA ShownTexts ==
  ASSUME NEW S, NEW slots \in Seq(S)
  PROVE  /\ Len(Shown(slots)) = Len(slots) /\ Len(slots) \in Nat
         /\ \A k \in 1 .. Len(slots) :
              Shown(slots)[k] = IF slots[k].tag = "covr" THEN slots[k].data.text ELSE "other"
BY DEF Shown

\* At first all of a list is left.
LEMMA AllIsRest ==
  ASSUME NEW S, NEW list \in Seq(S)
  PROVE  IsRestOf(list, list) /\ Len(list) - Len(list) = 0
<1>1. \A n \in Nat : n <= n /\ n - n = 0 /\ \A k \in 1 .. n : n - n + k = k
  OBVIOUS
<1>2. Len(list) \in Nat
  OBVIOUS
<1> QED
  BY <1>1, <1>2, Zenon DEF IsRestOf

\* Taking the first of a rest leaves a rest.
LEMMA RestTaken ==
  ASSUME NEW S, NEW list \in Seq(S), NEW rest \in Seq(S), rest # <<>>, IsRestOf(rest, list)
  PROVE  /\ IsRestOf(Tail(rest), list)
         /\ Len(list) - Len(Tail(rest)) = (Len(list) - Len(rest)) + 1
         /\ Len(list) - Len(rest) + 1 \in 1 .. Len(list)
         /\ Head(rest) = list[Len(list) - Len(rest) + 1]
<1>1. /\ Len(rest) \in Nat /\ Len(list) \in Nat /\ Len(rest) >= 1 /\ Len(rest) <= Len(list)
      /\ \A k \in 1 .. Len(rest) : rest[k] = list[Len(list) - Len(rest) + k]
  BY DEF IsRestOf
<1>2. /\ Len(Tail(rest)) = Len(rest) - 1
      /\ \A k \in 1 .. (Len(rest) - 1) : Tail(rest)[k] = rest[k + 1]
      /\ Head(rest) = rest[1]
  BY <1>1
<1>3. IsRestOf(Tail(rest), list)
  <2>1. ASSUME NEW k \in 1 .. Len(Tail(rest))
        PROVE  Tail(rest)[k] = list[Len(list) - Len(Tail(rest)) + k]
    <3>1. k + 1 \in 1 .. Len(rest) /\ k \in 1 .. (Len(rest) - 1)
      BY <1>1, <1>2
    <3>2. Len(list) - Len(Tail(rest)) + k = Len(list) - Len(rest) + (k + 1)
      BY <1>1, <1>2
    <3> QED
      BY <1>1, <1>2, <3>1, <3>2
  <2> QED
    BY <1>1, <1>2, <2>1 DEF IsRestOf
<1> QED
  BY <1>1, <1>2, <1>3

\* A picture is what is stored for its entry.
LEMMA PictureStored ==
  ASSUME NEW e \in Entries
  PROVE  LET text == IF e.tag = "covr" THEN e.value.text ELSE "other"
         IN  /\ Content(e) = Empty => text \notin Pictures
             /\ e.tag = "covr" /\ Content(e) # Empty => Content(e).text = text
<1>1. "other" \notin Pictures /\ Blank \notin Pictures
  BY DEF Pictures, Blank
<1>2. e.tag = "covr" =>
        Content(e) = IF e.value.text \in Pictures THEN Text(e.value.text) ELSE Empty
  BY DEF Content
<1>3. \A t \in Pictures : Text(t).text = t /\ Text(t) # Empty
  BY <1>1 DEF Text, Empty
<1> QED
  BY <1>1, <1>2, <1>3

LEMMA InitPictures == Init => PicturesInv
<1> SUFFICES ASSUME Init PROVE PicturesInv
  OBVIOUS
<1>1. /\ input.options \in Seq(OptionSet) /\ todo = input.options /\ phase = "options"
      /\ tags = <<>> /\ source_tags = <<>> /\ queue = <<>> /\ itmf_table = <<>>
  BY InputsAssumption DEF Init
<1>2. Len(Given(<<>>)) = 0 /\ Len(Shown(<<>>)) = 0
  BY DEF Given, Shown
<1>3. PicturesIn(Given(<<>>)) = <<>> /\ PicturesIn(Shown(<<>>)) = <<>>
  BY <1>2, PicturesDef DEF PicturesIn
<1>4. IsRestOf(todo, input.options) /\ Len(input.options) - Len(todo) = 0
  BY <1>1 DEF IsRestOf
<1>5. PicturesUpto(Given(input.options))[0] = <<>>
  BY <1>1, GivenTexts, PicturesDef
<1>6. NoPicture(<<>>)
  BY DEF NoPicture
<1> QED
  BY <1>1, <1>3, <1>4, <1>5, <1>6 DEF PicturesInv, OptionsInv, SlotsInv

\* An option that has a picture becomes an entry.
LEMMA AddOptionPictures == TagInv /\ PicturesInv /\ AddOption => PicturesInv'
<1> SUFFICES ASSUME TagInv, PicturesInv, AddOption PROVE PicturesInv'
  OBVIOUS
<1> DEFINE o == Head(todo)
           list == input.options
           k == Len(list) - Len(todo)
           text == IF o.tag = "covr" THEN o.value.text ELSE "other"
<1>1. /\ todo \in Seq(OptionSet) /\ todo # <<>> /\ tags \in Seq(Entries)
      /\ list \in Seq(OptionSet) /\ phase = "options" /\ IsRestOf(todo, list)
      /\ PicturesIn(Given(tags)) = PicturesUpto(Given(list))[k]
      /\ todo' = Tail(todo) /\ UNCHANGED <<input, source_tags, queue, itmf_table, last_error>>
  BY DEF TagInv, Types, AddOption, PicturesInv, OptionsInv
<1>2. /\ IsRestOf(todo', list) /\ Len(list) - Len(todo') = k + 1
      /\ k + 1 \in 1 .. Len(list) /\ o = list[k + 1] /\ k \in Int
  <2>1. Len(list) \in Nat /\ Len(todo) \in Nat
    BY <1>1
  <2> QED
    BY <1>1, <2>1, RestTaken
<1>3. Given(list)[k + 1] = text /\ Len(Given(list)) = Len(list) /\ Len(list) \in Nat
  BY <1>1, <1>2, GivenTexts
<1> HIDE DEF o, list, k
<1>4. PicturesUpto(Given(list))[k + 1] =
        IF text \in Pictures THEN Append(PicturesIn(Given(tags)), text)
                             ELSE PicturesIn(Given(tags))
  <2>1. (k + 1) - 1 = k
    BY <1>2
  <2> QED
    BY <1>1, <1>2, <1>3, <2>1, PicturesDef
<1>5. phase' # "crashed" =>
        PicturesIn(Given(tags')) =
          IF text \in Pictures THEN Append(PicturesIn(Given(tags)), text)
                               ELSE PicturesIn(Given(tags))
  <2>1. CASE o.from = "missing file"
    BY <2>1 DEF AddOption, o
  <2>2. CASE o.from = "argument" /\ o.value = Empty
    <3>1. text \notin Pictures
      <4>1. o.value.text = Blank
        BY <2>2 DEF Empty, Text
      <4> QED
        BY <4>1 DEF Pictures, Blank
    <3>2. tags' = tags
      BY <2>2 DEF AddOption, o
    <3> QED
      BY <3>1, <3>2
  <2>3. CASE o.from # "missing file" /\ ~(o.from = "argument" /\ o.value = Empty)
    <3> DEFINE e == Entry(o.tag, o.name, o.value)
    <3>1. tags' = Append(tags, e)
      BY <2>3 DEF AddOption, o
    <3>2. o \in OptionSet
      BY <1>1 DEF o
    <3>3. e \in Entries /\ e.tag = o.tag /\ e.value = o.value
      BY <3>2, EntryType DEF OptionSet, Entry
    <3> HIDE DEF e
    <3>4. /\ tags' \in Seq(Entries) /\ Len(tags') = Len(tags) + 1 /\ Len(tags) \in Nat
          /\ tags'[Len(tags) + 1] = e
          /\ \A i \in 1 .. Len(tags) : tags'[i] = tags[i]
      BY <1>1, <3>1, <3>3
    <3>5. /\ Len(Given(tags)) = Len(tags) /\ Len(Given(tags')) = Len(tags')
          /\ \A i \in 1 .. Len(tags) : Given(tags)[i] = Given(tags')[i]
          /\ Given(tags')[Len(tags')] = text
      <4>1. /\ Len(Given(tags)) = Len(tags)
            /\ \A i \in 1 .. Len(tags) :
                 Given(tags)[i] = IF tags[i].tag = "covr" THEN tags[i].value.text ELSE "other"
        BY <1>1, GivenTexts
      <4> DEFINE longer == tags'
      <4>2. longer \in Seq(Entries)
        BY <3>4
      <4> HIDE DEF longer
      <4>3. /\ Len(Given(longer)) = Len(longer)
            /\ \A i \in 1 .. Len(longer) :
                 Given(longer)[i] =
                   IF longer[i].tag = "covr" THEN longer[i].value.text ELSE "other"
        BY <4>2, GivenTexts
      <4>4. \A i \in 1 .. Len(tags) : i \in 1 .. Len(longer) /\ longer[i] = tags[i]
        BY <3>4 DEF longer
      <4>5. Len(longer) \in 1 .. Len(longer) /\ longer[Len(longer)] = e
        BY <3>4 DEF longer
      <4>6. Given(longer)[Len(longer)] = text
        BY <3>3, <4>3, <4>5
      <4> QED
        BY <4>1, <4>3, <4>4, <4>6 DEF longer
    <3> HIDE DEF text
    <3> QED
      BY <3>4, <3>5, PicturesLonger
  <2> QED
    BY <2>1, <2>2, <2>3
<1>6. phase' \in {"options", "crashed"}
  BY <1>1 DEF AddOption
<1>7. OptionsInv'
  BY <1>1, <1>2, <1>4, <1>5, <1>6 DEF OptionsInv, list, k
<1>8. SlotsInv'
  BY <1>1, <1>6 DEF PicturesInv, SlotsInv, NoPicture
<1> QED
  BY <1>7, <1>8 DEF PicturesInv

\* The strings of the source and of JSON bring no pictures.
LEMMA AddedNoPicture ==
  ASSUME NEW ctx, NEW call
  PROVE  NoPicture(Added(ctx, call))
<1>1. TagOfRow(FoundRow(call.row)) # "covr"
  BY DEF TagOfRow
<1>2. \A v : Entry(TagOfRow(FoundRow(call.row)), Blank, v).tag # "covr"
  BY <1>1 DEF Entry
<1>3. ASSUME NEW tag \in {"trkn", "disk"}, NEW m, NEW n
      PROVE  \E S : Submitted(tag, m, n) \in Seq(S) /\ \A e \in S : e.tag # "covr"
  <2> DEFINE d == Entry(tag, Blank, Number("n", m))
             e == Entry(tag, Blank, Pair("n/t", m, n))
             S == {d, e}
  <2>1. \A x \in S : x.tag # "covr"
    BY DEF Entry
  <2>2. Submitted(tag, m, n) \in {<<>>, <<d>>, <<e>>}
    BY DEF Submitted
  <2> HIDE DEF d, e
  <2>3. <<>> \in Seq(S) /\ <<d>> \in Seq(S) /\ <<e>> \in Seq(S)
    OBVIOUS
  <2> HIDE DEF S
  <2> QED
    BY <2>1, <2>2, <2>3
<1>4. \A e : e.tag # "covr" => NoPicture(<<e>>)
  BY DEF NoPicture
<1>5. NoPicture(<<>>)
  BY DEF NoPicture
<1>6. CASE call.row = 0
  <2> DEFINE s == Submitted("trkn", ctx["track"], ctx["track_total"])
             t == Submitted("disk", ctx["disc"], ctx["disc_total"])
  <2>1. Added(ctx, call) = s \o t
    BY <1>6 DEF Added
  <2>2. PICK S : s \in Seq(S) /\ \A e \in S : e.tag # "covr"
    BY <1>3
  <2>3. PICK T : t \in Seq(T) /\ \A e \in T : e.tag # "covr"
    BY <1>3
  <2> HIDE DEF s, t
  <2>4. s \in Seq(S \cup T) /\ t \in Seq(S \cup T)
    BY <2>2, <2>3
  <2>5. s \o t \in Seq(S \cup T) /\ \A e \in S \cup T : e.tag # "covr"
    BY <2>2, <2>3, <2>4
  <2>6. \A k \in 1 .. Len(s \o t) : (s \o t)[k] \in S \cup T
    BY <2>5
  <2> QED
    BY <2>1, <2>5, <2>6 DEF NoPicture
<1>7. CASE call.row # 0
  <2>1. \/ Added(ctx, call) = <<>>
        \/ Added(ctx, call) = <<Entry(TagOfRow(FoundRow(call.row)), Blank, call.value)>>
    BY <1>7 DEF Added
  <2> QED
    BY <1>2, <1>4, <1>5, <2>1
<1> QED
  BY <1>6, <1>7

LEMMA SourceCallPictures == TagInv /\ PicturesInv /\ SourceCall => PicturesInv'
<1> SUFFICES ASSUME TagInv, PicturesInv, SourceCall PROVE PicturesInv'
  OBVIOUS
<1> DEFINE added == Added(pairs, Head(todo))
<1>1. /\ UNCHANGED <<input, phase, tags, queue, itmf_table, last_error>>
      /\ phase = "source" /\ source_tags' = source_tags \o added
  BY DEF SourceCall
<1>2. todo \in Seq(CallSet) /\ todo # <<>> /\ pairs \in PairSet /\ source_tags \in Seq(Entries)
  BY DEF TagInv, Types, SourceCall
<1>3. Head(todo) \in CallSet
  BY <1>2
<1>4. added \in Seq(Entries) /\ NoPicture(added)
  BY <1>2, <1>3, CallTypes, AddedNoPicture
<1>5. NoPicture(source_tags)
  BY DEF PicturesInv, SlotsInv
<1> HIDE DEF added
<1>6. NoPicture(source_tags')
  <2>1. ASSUME NEW k \in 1 .. Len(source_tags \o added)
        PROVE  (source_tags \o added)[k].tag # "covr"
    <3>1. CASE k <= Len(source_tags)
      BY <1>2, <1>4, <1>5, <3>1 DEF NoPicture
    <3>2. CASE k > Len(source_tags)
      <4>1. /\ k - Len(source_tags) \in 1 .. Len(added)
            /\ (source_tags \o added)[k] = added[k - Len(source_tags)]
        BY <1>2, <1>4, <3>2
      <4> QED
        BY <1>4, <4>1 DEF NoPicture
    <3> QED
      BY <1>2, <1>4, <3>1, <3>2
  <2> QED
    BY <1>1, <2>1 DEF NoPicture
<1>7. OptionsInv'
  BY <1>1 DEF PicturesInv, OptionsInv
<1>8. SlotsInv'
  BY <1>1, <1>6 DEF PicturesInv, SlotsInv, NoPicture
<1> QED
  BY <1>7, <1>8 DEF PicturesInv

LEMMA JsonMemberPictures == TagInv /\ PicturesInv /\ JsonMember => PicturesInv'
<1> SUFFICES ASSUME TagInv, PicturesInv, JsonMember PROVE PicturesInv'
  OBVIOUS
<1>1. /\ UNCHANGED <<input, phase, source_tags, tags, itmf_table, last_error>>
      /\ phase = "json" /\ queue' = Added(pairs, Head(todo))
  BY DEF JsonMember
<1>2. NoPicture(queue')
  BY <1>1, AddedNoPicture
<1>3. OptionsInv'
  BY <1>1 DEF PicturesInv, OptionsInv
<1>4. SlotsInv'
  BY <1>1, <1>2 DEF PicturesInv, SlotsInv, NoPicture
<1> QED
  BY <1>3, <1>4 DEF PicturesInv

\* What an entry does to the pictures in the slots: one more if it is one, none
\* fewer if it is not, and nothing to the others.
LEMMA WrittenPictures ==
  ASSUME itmf_table \in Seq(SlotSet), OneSlotIn(itmf_table),
         NEW e \in Entries, NEW fault, Content(e) # Empty,
         fault = "none" \/ e.tag # "covr"
  PROVE  LET text == IF e.tag = "covr" THEN e.value.text ELSE "other"
             shown == PicturesIn(Shown(itmf_table))
         IN  PicturesIn(Shown(Written(e, fault))) =
               IF text \in Pictures THEN Append(shown, text) ELSE shown
<1> DEFINE text == IF e.tag = "covr" THEN e.value.text ELSE "other"
           shown == PicturesIn(Shown(itmf_table))
           t == Written(e, fault)
<1>1. /\ Len(Shown(itmf_table)) = Len(itmf_table) /\ Len(itmf_table) \in Nat
      /\ \A k \in 1 .. Len(itmf_table) :
           Shown(itmf_table)[k] =
             IF itmf_table[k].tag = "covr" THEN itmf_table[k].data.text ELSE "other"
  BY ShownTexts
<1>2. t \in Seq(SlotSet) =>
        /\ Len(Shown(t)) = Len(t) /\ Len(t) \in Nat
        /\ \A k \in 1 .. Len(t) :
             Shown(t)[k] = IF t[k].tag = "covr" THEN t[k].data.text ELSE "other"
  <2> HIDE DEF t
  <2> QED
    BY ShownTexts
<1>3. e.tag = "covr" => Content(e).text = text
  BY PictureStored
<1>4. "other" \notin Pictures
  BY DEF Pictures
<1>5. CASE fault \in {"table", "name"}
  BY <1>4, <1>5 DEF Written
<1>6. CASE fault \notin {"table", "name"} /\ Slots(e) = {}
  <2>1. t \in Seq(SlotSet)
    BY <1>6, SlotMade
  <2>2. t[Len(t)].tag = e.tag /\ (fault # "data" => t[Len(t)].data = Content(e))
    BY <1>6, SlotMade
  <2>3. (IF t[Len(t)].tag = "covr" THEN t[Len(t)].data.text ELSE "other") = text
    BY <1>3, <2>2
  <2>4. /\ Len(t) = Len(itmf_table) + 1
        /\ \A k \in 1 .. Len(itmf_table) : t[k] = itmf_table[k]
    BY <1>6, SlotMade
  <2> HIDE DEF t, text
  <2>5. Shown(t)[Len(t)] = text
    BY <1>1, <1>2, <2>1, <2>3, <2>4
  <2>6. \A k \in 1 .. Len(itmf_table) : Shown(t)[k] = Shown(itmf_table)[k]
    BY <1>1, <1>2, <2>1, <2>4
  <2>7. PicturesIn(Shown(t)) = IF Shown(t)[Len(Shown(t))] \in Pictures
                                 THEN Append(shown, Shown(t)[Len(Shown(t))]) ELSE shown
    BY <1>1, <1>2, <2>1, <2>4, <2>6, PicturesLonger
  <2> QED
    BY <1>2, <2>1, <2>5, <2>7 DEF t, text
<1>7. CASE fault \notin {"table", "name"} /\ Slots(e) # {}
  <2>1. /\ t \in Seq(SlotSet) /\ Len(t) = Len(itmf_table)
        /\ \A k \in 1 .. Len(t) : t[k].tag = itmf_table[k].tag
                                  /\ (k \notin Slots(e) => t[k] = itmf_table[k])
    BY <1>7, SlotFound
  <2>2. e.tag # "covr" /\ \A k \in Slots(e) : itmf_table[k].tag = e.tag
    BY <1>7 DEF Slots
  <2> HIDE DEF t
  <2>3. \A k \in 1 .. Len(itmf_table) : Shown(itmf_table)[k] = Shown(t)[k]
    BY <1>1, <1>2, <2>1, <2>2
  <2>4. PicturesIn(Shown(t)) = shown
    BY <1>1, <1>2, <2>1, <2>3, PicturesSame
  <2> QED
    BY <1>4, <2>2, <2>4 DEF t
<1> QED
  BY <1>5, <1>6, <1>7

LEMMA WriteEntryPictures == TagInv /\ PicturesInv /\ WriteEntry => PicturesInv'
<1> SUFFICES ASSUME TagInv, PicturesInv, WriteEntry PROVE PicturesInv'
  OBVIOUS
<1> DEFINE e == Head(queue)
           text == IF e.tag = "covr" THEN e.value.text ELSE "other"
           shown == PicturesIn(Shown(itmf_table))
<1>1. /\ queue \in Seq(Entries) /\ queue # <<>> /\ tags \in Seq(Entries)
      /\ itmf_table \in Seq(SlotSet) /\ OneSlotIn(itmf_table)
      /\ queue' = Tail(queue) /\ UNCHANGED <<input, phase, todo, pairs, source_tags, tags>>
      /\ phase \in Phases \ {"options", "source", "done", "failed", "crashed"}
  BY DEF TagInv, Types, Noted, WriteEntry
<1>2. /\ e \in Entries /\ e = queue[1] /\ 1 \in 1 .. Len(queue)
      /\ Len(queue') = Len(queue) - 1
      /\ \A k \in 1 .. Len(queue') : queue'[k] = queue[k + 1] /\ k + 1 \in 1 .. Len(queue)
  BY <1>1
<1>3. /\ ~last_error' => ~last_error
      /\ ~last_error' \/ e.tag # "covr" =>
           PicturesIn(Shown(itmf_table')) =
             IF text \in Pictures THEN Append(shown, text) ELSE shown
  <2>1. CASE Content(e) = Empty
    <3>1. text \notin Pictures
      BY <1>2, <2>1, PictureStored
    <3>2. UNCHANGED <<itmf_table, last_error>>
      BY <2>1 DEF WriteEntry
    <3> QED
      BY <3>1, <3>2
  <2>2. CASE Content(e) # Empty
    <3>1. PICK fault \in Faults(e) \cup {"none"} :
            itmf_table' = Written(e, fault) /\ last_error' = Noticed(fault)
      BY <2>2 DEF WriteEntry
    <3>2. ~last_error' => ~last_error /\ fault = "none"
      BY <3>1 DEF Noticed
    <3> HIDE DEF e
    <3>3. fault = "none" \/ e.tag # "covr" =>
            PicturesIn(Shown(Written(e, fault))) =
              IF text \in Pictures THEN Append(shown, text) ELSE shown
      BY <1>1, <1>2, <2>2, WrittenPictures
    <3> QED
      BY <3>1, <3>2, <3>3
  <2> QED
    BY <2>1, <2>2
<1> HIDE DEF e
<1>4. OptionsInv'
  BY <1>1 DEF PicturesInv, OptionsInv
<1>5. NoPicture(source_tags)'
  BY <1>1 DEF PicturesInv, SlotsInv, NoPicture
<1>6. CASE phase # "write options"
  <2>1. NoPicture(queue)
    BY <1>6 DEF PicturesInv, SlotsInv
  <2>2. e.tag # "covr" /\ NoPicture(queue')
    BY <1>2, <2>1 DEF NoPicture
  <2>3. PicturesIn(Shown(itmf_table')) = shown
    BY <1>3, <2>2 DEF Pictures
  <2> QED
    BY <1>1, <1>3, <1>4, <1>5, <1>6, <2>2, <2>3 DEF PicturesInv, SlotsInv, Phases, NoPicture
<1>7. CASE phase = "write options"
  <2> DEFINE k == Len(tags) - Len(queue)
  <2>1. IsRestOf(queue, tags)
    BY <1>7 DEF PicturesInv, SlotsInv
  <2>2. /\ IsRestOf(queue', tags) /\ Len(tags) - Len(queue') = k + 1
        /\ k + 1 \in 1 .. Len(tags) /\ e = tags[k + 1] /\ k \in Int
    <3>1. Len(tags) \in Nat /\ Len(queue) \in Nat
      BY <1>1
    <3> QED
      BY <1>1, <2>1, <3>1, RestTaken DEF e
  <2>3. ~last_error => shown = PicturesUpto(Given(tags))[k]
    BY <1>7 DEF PicturesInv, SlotsInv, ShownOf
  <2>4. Given(tags)[k + 1] = text /\ Len(Given(tags)) = Len(tags) /\ Len(tags) \in Nat
    BY <1>1, <2>2, GivenTexts
  <2> HIDE DEF k, text, shown
  <2>5. PicturesUpto(Given(tags))[k + 1] =
          IF text \in Pictures THEN Append(PicturesUpto(Given(tags))[k], text)
                               ELSE PicturesUpto(Given(tags))[k]
    <3>1. (k + 1) - 1 = k
      BY <2>2
    <3> QED
      BY <2>2, <2>4, <3>1, PicturesDef
  <2>6. ~last_error' => PicturesIn(Shown(itmf_table')) = PicturesUpto(Given(tags))[k + 1]
    BY <1>3, <2>3, <2>5
  <2>7. ShownOf(tags, queue)'
    BY <1>1, <2>2, <2>6 DEF ShownOf
  <2>8. IsRestOf(queue, tags)'
    BY <1>1, <2>2
  <2> QED
    BY <1>1, <1>4, <1>5, <1>7, <2>7, <2>8 DEF PicturesInv, SlotsInv
<1> QED
  BY <1>6, <1>7

LEMMA NextPhasePictures == TagInv /\ PicturesInv /\ NextPhase => PicturesInv'
<1> SUFFICES ASSUME TagInv, PicturesInv, NextPhase PROVE PicturesInv'
  OBVIOUS
<1>1. /\ phase \in Phases \ {"done", "failed", "crashed"}
      /\ phase' = Successor(phase)
      /\ UNCHANGED <<input, source_tags, tags, itmf_table, last_error>>
      /\ todo = <<>> /\ queue = <<>>
      /\ tags \in Seq(Entries) /\ input.options \in Seq(OptionSet)
  BY DEF NextPhase, TagInv, Types, Stopped, PicturesInv, OptionsInv
<1>2. phase' \in Phases \ {"options", "crashed"}
  BY <1>1 DEF Successor, Phases
<1>3. /\ Len(Given(tags)) = Len(tags) /\ Len(tags) \in Nat
      /\ Len(Given(input.options)) = Len(input.options) /\ Len(input.options) \in Nat
  BY <1>1, GivenTexts
<1>4. OptionsInv'
  <2>1. CASE phase = "options"
    <3>1. PicturesIn(Given(tags)) = PicturesIn(Given(input.options))
      <4>1. Len(input.options) - Len(todo) = Len(input.options)
        BY <1>1, <1>3
      <4> QED
        BY <1>3, <2>1, <4>1 DEF PicturesInv, OptionsInv, PicturesIn
    <3> QED
      BY <1>1, <1>2, <3>1 DEF OptionsInv
  <2>2. CASE phase # "options"
    BY <1>1, <1>2, <2>2 DEF PicturesInv, OptionsInv
  <2> QED
    BY <2>1, <2>2
<1>5. /\ NoPicture(source_tags)'
      /\ phase' # "write options" => NoPicture(queue')
  <2>1. NoPicture(source_tags)
    BY DEF PicturesInv, SlotsInv
  <2>2. ToolTag.tag # "covr" /\ GaplessTag.tag # "covr"
    BY DEF ToolTag, GaplessTag, Entry
  <2>3. NoPicture(<<>>) /\ NoPicture(<<ToolTag>>) /\ NoPicture(<<GaplessTag>>)
    BY <2>2 DEF NoPicture
  <2>4. phase' # "write options" => queue' \in {source_tags, <<>>, <<ToolTag>>, <<GaplessTag>>}
    BY DEF NextPhase
  <2> QED
    BY <1>1, <2>1, <2>3, <2>4
<1>6. phase' \in {"options", "source", "write source", "json", "write options"} =>
        PicturesIn(Shown(itmf_table')) = <<>>
  <2>1. phase' \in {"options", "source", "write source", "json", "write options"} =>
          phase \in {"options", "source", "write source", "json"}
    BY <1>1 DEF Successor, Phases
  <2> QED
    BY <1>1, <2>1 DEF PicturesInv, SlotsInv
<1>7. phase' = "write options" => IsRestOf(queue', tags') /\ ShownOf(tags, queue)'
  <2> SUFFICES ASSUME phase' = "write options"
               PROVE  IsRestOf(queue', tags') /\ ShownOf(tags, queue)'
    OBVIOUS
  <2>1. queue' = tags /\ tags' = tags
    BY <1>1 DEF NextPhase
  <2>2. IsRestOf(tags, tags) /\ Len(tags) - Len(tags) = 0
    BY <1>1, AllIsRest
  <2>3. PicturesUpto(Given(tags))[0] = <<>>
    BY <1>3, PicturesDef
  <2> QED
    BY <1>6, <2>1, <2>2, <2>3 DEF ShownOf
<1>8. phase' \in {"tool", "gapless", "done"} =>
        (~last_error' => PicturesIn(Shown(itmf_table')) = PicturesIn(Given(tags')))
  <2>1. phase' \in {"tool", "gapless", "done"} => phase \in {"write options", "tool", "gapless"}
    BY <1>1 DEF Successor, Phases
  <2>2. CASE phase = "write options"
    <3>1. Len(tags) - Len(queue) = Len(tags)
      BY <1>1, <1>3
    <3>2. ~last_error => PicturesIn(Shown(itmf_table)) = PicturesIn(Given(tags))
      BY <1>3, <2>2, <3>1 DEF PicturesInv, SlotsInv, ShownOf, PicturesIn
    <3> QED
      BY <1>1, <3>2
  <2>3. CASE phase \in {"tool", "gapless"}
    BY <1>1, <2>3 DEF PicturesInv, SlotsInv
  <2> QED
    BY <2>1, <2>2, <2>3
<1>9. SlotsInv'
  BY <1>5, <1>6, <1>7, <1>8 DEF SlotsInv
<1> QED
  BY <1>4, <1>9 DEF PicturesInv

\* All pictures are kept in their order (EveryPictureKept), for all lists of
\* options, source strings and JSON members and whichever allocation fails.
THEOREM PicturesKept == Spec => []EveryPictureKept
<1>1. TagInv /\ PicturesInv /\ [Next]_vars => PicturesInv'
  <2> SUFFICES ASSUME TagInv, PicturesInv, [Next]_vars PROVE PicturesInv'
    OBVIOUS
  <2>1. CASE UNCHANGED vars
    BY <2>1 DEF vars, PicturesInv, OptionsInv, SlotsInv, ShownOf, NoPicture, IsRestOf
  <2> QED
    BY <2>1, AddOptionPictures, SourceCallPictures, JsonMemberPictures,
       WriteEntryPictures, NextPhasePictures DEF Next, Step, Finished
<1>2. TagInv /\ PicturesInv => EveryPictureKept
  BY DEF TagInv, Noted, PicturesInv, OptionsInv, SlotsInv, EveryPictureKept
<1> QED
  BY <1>1, <1>2, InitPictures, TagInvariant, PTL DEF Spec

-----------------------------------------------------------------------------
(***************************************************************************)
(* The latest source.  What has been written to the slots, or is about to  *)
(* be, is for each tag the last usable value of the list that is being     *)
(* worked off, or what came before that list.                              *)
(***************************************************************************)

\* v is the value at the last of the places M up to k, or d if there is none.
LastAt(M, k, F, d, v) ==
  \/ \E i \in M : i <= k /\ (\A j \in M : j <= k => j <= i) /\ v = F[i]
  \/ (\A i \in M : i > k) /\ v = d

\* There is only one.
LEMMA LastUnique ==
  ASSUME NEW M \in SUBSET Int, NEW k, NEW F, NEW d, NEW v, NEW w,
         LastAt(M, k, F, d, v), LastAt(M, k, F, d, w), k \in Int
  PROVE  v = w
<1>1. CASE \A i \in M : i > k
  BY <1>1 DEF LastAt
<1>2. CASE \E i \in M : ~ (i > k)
  <2>1. PICK i \in M : i <= k /\ (\A j \in M : j <= k => j <= i) /\ v = F[i]
    BY <1>2 DEF LastAt
  <2>2. PICK h \in M : h <= k /\ (\A j \in M : j <= k => j <= h) /\ w = F[h]
    BY <1>2 DEF LastAt
  <2>3. i = h
    BY <2>1, <2>2
  <2> QED
    BY <2>1, <2>2, <2>3
<1> QED
  BY <1>1, <1>2

\* One place further.
LEMMA LastStep ==
  ASSUME NEW M \in SUBSET Int, NEW k \in Int, NEW F, NEW d, NEW v,
         LastAt(M, k, F, d, v)
  PROVE  LastAt(M, k + 1, F, d, IF k + 1 \in M THEN F[k + 1] ELSE v)
<1>1. CASE k + 1 \in M
  <2>1. k + 1 <= k + 1 /\ \A j \in M : j <= k + 1 => j <= k + 1
    OBVIOUS
  <2> QED
    BY <1>1, <2>1 DEF LastAt
<1>2. CASE k + 1 \notin M
  <2>1. \A j \in M : j <= k + 1 <=> j <= k
    BY <1>2
  <2>2. \A j \in M : j > k + 1 <=> j > k
    BY <1>2
  <2> QED
    BY <1>2, <2>1, <2>2 DEF LastAt
<1> QED
  BY <1>1, <1>2

\* Before the first place there is none.
LEMMA LastAtFirst ==
  ASSUME NEW n, NEW M \in SUBSET (1 .. n), NEW F, NEW d
  PROVE  LastAt(M, 0, F, d, d)
BY DEF LastAt

\* At the end it is at the greatest of all places.
LEMMA LastOfAll ==
  ASSUME NEW n \in Nat, NEW M \in SUBSET (1 .. n), NEW F, NEW d
  PROVE  LastAt(M, n, F, d, IF M = {} THEN d ELSE F[Max(M)])
<1>1. CASE M = {}
  BY <1>1 DEF LastAt
<1>2. CASE M # {}
  <2>1. M \in SUBSET Int /\ n \in Int /\ \A y \in M : y <= n
    OBVIOUS
  <2>2. Max(M) \in M /\ \A y \in M : y <= Max(M)
    BY <1>2, <2>1, MaxOf
  <2> QED
    BY <1>2, <2>1, <2>2 DEF LastAt
<1> QED
  BY <1>1, <1>2

-----------------------------------------------------------------------------
\* The places in a list of entries that fill the slot of a tag and a name.
Places(q, t, n) ==
  {i \in 1 .. Len(q) : q[i].tag = t /\ q[i].name = n /\ Content(q[i]) # Empty}

Contents(q) == [i \in 1 .. Len(q) |-> Content(q[i])]

\* What is in that slot when all of the list is written, if d was in it before.
Latest(q, t, n, d) ==
  IF Places(q, t, n) = {} THEN d ELSE Contents(q)[Max(Places(q, t, n))]

\* The last place of q is the last one of its second part, or else of its first.
LEMMA LatestSplit ==
  ASSUME NEW q, NEW q1, NEW q2, NEW t, NEW n, NEW d,
         Len(q1) \in Nat, Len(q2) \in Nat, Len(q) = Len(q1) + Len(q2),
         \A k \in 1 .. Len(q1) : q[k] = q1[k],
         \A k \in 1 .. Len(q2) : q[Len(q1) + k] = q2[k]
  PROVE  Latest(q, t, n, d) = Latest(q2, t, n, Latest(q1, t, n, d))
<1> DEFINE M == Places(q, t, n)
           M1 == Places(q1, t, n)
           M2 == Places(q2, t, n)
           v == Latest(q1, t, n, d)
           w == Latest(q2, t, n, v)
<1>1. PICK l1 \in Nat, l2 \in Nat, l \in Nat :
        l1 = Len(q1) /\ l2 = Len(q2) /\ l = Len(q) /\ l = l1 + l2
  <2>1. Len(q) \in Nat
    OBVIOUS
  <2> QED
    BY <2>1, Zenon
<1>2. /\ M \in SUBSET (1 .. l) /\ M1 \in SUBSET (1 .. l1) /\ M2 \in SUBSET (1 .. l2)
  BY <1>1 DEF Places
<1>3. \A i \in 1 .. l : i \in M <=> \/ i \in M1
                                    \/ i - l1 \in M2
  <2> SUFFICES ASSUME NEW i \in 1 .. l PROVE i \in M <=> (i \in M1 \/ i - l1 \in M2)
    OBVIOUS
  <2>1. CASE i <= l1
    <3>1. i \in 1 .. l1 /\ q[i] = q1[i] /\ i - l1 \notin 1 .. l2
      BY <1>1, <2>1
    <3> QED
      BY <1>1, <3>1 DEF Places
  <2>2. CASE i > l1
    <3>1. i - l1 \in 1 .. l2 /\ i \notin 1 .. l1 /\ l1 + (i - l1) = i
      BY <1>1, <2>2
    <3>2. q[i] = q2[i - l1]
      BY <1>1, <3>1
    <3> QED
      BY <1>1, <3>1, <3>2 DEF Places
  <2> QED
    BY <1>1, <2>1, <2>2
<1>4. /\ \A i \in 1 .. l1 : Contents(q)[i] = Contents(q1)[i]
      /\ \A i \in 1 .. l2 : Contents(q)[l1 + i] = Contents(q2)[i]
  BY <1>1 DEF Contents
<1>5. /\ LastAt(M1, l1, Contents(q1), d, v) /\ LastAt(M2, l2, Contents(q2), v, w)
      /\ LastAt(M, l, Contents(q), d, Latest(q, t, n, d))
  BY <1>1, <1>2, LastOfAll DEF Latest
<1> HIDE DEF M, M1, M2, v, w
<1>6. LastAt(M, l, Contents(q), d, w)
  <2>1. CASE M2 = {}
    <3>1. w = v
      BY <1>5, <2>1 DEF LastAt
    <3>2. \A i \in M : i \in M1 /\ i <= l1
      BY <1>2, <1>3, <2>1
    <3>3. CASE M1 = {}
      <4>1. v = d /\ M = {}
        BY <1>5, <3>2, <3>3 DEF LastAt
      <4> QED
        BY <3>1, <4>1 DEF LastAt
    <3>4. CASE M1 # {}
      <4>1. PICK i \in M1 : i <= l1 /\ (\A j \in M1 : j <= l1 => j <= i) /\ v = Contents(q1)[i]
        <5>1. \A j \in M1 : ~ (j > l1)
          BY <1>1, <1>2
        <5> QED
          BY <1>5, <3>4, <5>1 DEF LastAt
      <4>2. i \in 1 .. l1 /\ i \in 1 .. l /\ i \in M
        BY <1>1, <1>2, <1>3, <4>1
      <4> QED
        BY <1>1, <1>4, <3>1, <3>2, <4>1, <4>2 DEF LastAt
    <3> QED
      BY <3>3, <3>4
  <2>2. CASE M2 # {}
    <3>1. PICK i \in M2 : i <= l2 /\ (\A j \in M2 : j <= l2 => j <= i) /\ w = Contents(q2)[i]
      <4>1. \A j \in M2 : ~ (j > l2)
        BY <1>1, <1>2
      <4> QED
        BY <1>5, <2>2, <4>1 DEF LastAt
    <3>2. i \in 1 .. l2 /\ l1 + i \in 1 .. l /\ (l1 + i) - l1 = i
      BY <1>1, <1>2, <3>1
    <3>3. l1 + i \in M /\ w = Contents(q)[l1 + i]
      BY <1>3, <1>4, <3>1, <3>2
    <3>4. \A j \in M : j <= l1 + i
      <4> SUFFICES ASSUME NEW j \in M PROVE j <= l1 + i
        OBVIOUS
      <4>1. j \in M1 \/ j - l1 \in M2
        BY <1>2, <1>3
      <4>2. CASE j \in M1
        BY <1>1, <1>2, <3>2, <4>2
      <4>3. CASE j - l1 \in M2
        <5>1. j - l1 \in 1 .. l2 /\ j \in Int
          BY <1>2, <4>3
        <5>2. j - l1 <= i
          BY <3>1, <4>3, <5>1
        <5> QED
          BY <3>2, <5>1, <5>2
      <4> QED
        BY <4>1, <4>2, <4>3
    <3> QED
      BY <1>1, <3>2, <3>3, <3>4 DEF LastAt
  <2> QED
    BY <2>1, <2>2
<1>7. M \in SUBSET Int /\ l \in Int
  BY <1>2
<1>8. Latest(q, t, n, d) = w
  BY <1>5, <1>6, <1>7, LastUnique
<1> QED
  BY <1>8 DEF w, v

\* Nothing is written, or one entry.
LEMMA LatestOne ==
  ASSUME NEW t, NEW n, NEW d, NEW e
  PROVE  /\ Latest(<<>>, t, n, d) = d
         /\ Latest(<<e>>, t, n, d) =
              IF e.tag = t /\ e.name = n /\ Content(e) # Empty THEN Content(e) ELSE d
<1>1. Places(<<>>, t, n) = {}
  BY DEF Places
<1>2. Places(<<e>>, t, n) = IF e.tag = t /\ e.name = n /\ Content(e) # Empty THEN {1} ELSE {}
  BY DEF Places
<1>3. Max({1}) = 1 /\ Contents(<<e>>)[1] = Content(e)
  BY DEF Max, Contents
<1> QED
  BY <1>1, <1>2, <1>3 DEF Latest

\* Two lists, one after the other.
LEMMA LatestBoth ==
  ASSUME NEW S, NEW q1 \in Seq(S), NEW q2 \in Seq(S), NEW t, NEW n, NEW d
  PROVE  Latest(q1 \o q2, t, n, d) = Latest(q2, t, n, Latest(q1, t, n, d))
<1> DEFINE q == q1 \o q2
<1>1. /\ Len(q1) \in Nat /\ Len(q2) \in Nat /\ Len(q) = Len(q1) + Len(q2)
      /\ \A k \in 1 .. Len(q1) : q[k] = q1[k]
      /\ \A k \in 1 .. Len(q2) : q[Len(q1) + k] = q2[k]
  OBVIOUS
<1> HIDE DEF q
<1>2. Latest(q, t, n, d) = Latest(q2, t, n, Latest(q1, t, n, d))
  BY <1>1, LatestSplit
<1> QED
  BY <1>2 DEF q

\* The first entry of a list, and the others.
LEMMA LatestFirst ==
  ASSUME NEW S, NEW q \in Seq(S), q # <<>>, NEW t, NEW n, NEW d
  PROVE  Latest(q, t, n, d) = Latest(Tail(q), t, n, Latest(<<Head(q)>>, t, n, d))
<1> DEFINE q1 == <<Head(q)>>
           q2 == Tail(q)
<1>1. /\ Len(q1) \in Nat /\ Len(q2) \in Nat /\ Len(q) = Len(q1) + Len(q2)
      /\ \A k \in 1 .. Len(q1) : q[k] = q1[k]
      /\ \A k \in 1 .. Len(q2) : q[Len(q1) + k] = q2[k]
  OBVIOUS
<1> HIDE DEF q1, q2
<1>2. Latest(q, t, n, d) = Latest(q2, t, n, Latest(q1, t, n, d))
  BY <1>1, LatestSplit
<1> QED
  BY <1>2 DEF q1, q2

\* What is written takes the place of what was there.
LEMMA LatestOver ==
  ASSUME NEW q, Len(q) \in Nat, NEW t, NEW n, NEW d
  PROVE  Latest(q, t, n, d) =
           IF Latest(q, t, n, Empty) # Empty THEN Latest(q, t, n, Empty) ELSE d
<1>1. CASE Places(q, t, n) = {}
  BY <1>1 DEF Latest
<1>2. CASE Places(q, t, n) # {}
  <2>1. Places(q, t, n) \in SUBSET (1 .. Len(q))
    BY DEF Places
  <2>2. /\ Places(q, t, n) \in SUBSET Int /\ Len(q) \in Int
        /\ \A y \in Places(q, t, n) : y <= Len(q)
    BY <2>1
  <2>3. Max(Places(q, t, n)) \in Places(q, t, n)
    BY <1>2, <2>2, MaxOf
  <2>4. Contents(q)[Max(Places(q, t, n))] # Empty
    BY <2>3 DEF Places, Contents
  <2> QED
    BY <1>2, <2>4 DEF Latest
<1> QED
  BY <1>1, <1>2

-----------------------------------------------------------------------------
\* What a table holds under a tag and a name.
StoredIn(table, t, n) ==
  LET found == {i \in 1 .. Len(table) : table[i].tag = t /\ table[i].name = n}
  IN  IF found = {} THEN Empty ELSE table[Min(found)].data

\* It is in the only slot of that tag and name.
LEMMA StoredWhere ==
  ASSUME NEW table, OneSlotIn(table), NEW t, NEW n, t # "covr",
         NEW i \in 1 .. Len(table), table[i].tag = t, table[i].name = n
  PROVE  StoredIn(table, t, n) = table[i].data
<1>1. {k \in 1 .. Len(table) : table[k].tag = t /\ table[k].name = n} = {i}
  BY DEF OneSlotIn
<1>2. Min({i}) = i
  BY DEF Min
<1> QED
  BY <1>1, <1>2 DEF StoredIn

\* Where no slot has the tag and the name there is nothing.
LEMMA StoredNowhere ==
  ASSUME NEW table, NEW t, NEW n,
         \A i \in 1 .. Len(table) : ~ (table[i].tag = t /\ table[i].name = n)
  PROVE  StoredIn(table, t, n) = Empty
<1>1. {k \in 1 .. Len(table) : table[k].tag = t /\ table[k].name = n} = {}
  OBVIOUS
<1> QED
  BY <1>1 DEF StoredIn

\* An entry that is written without a fault is in its slot, and the other slots
\* hold what they held.
LEMMA WrittenStored ==
  ASSUME itmf_table \in Seq(SlotSet), OneSlotIn(itmf_table),
         NEW e \in Entries, Content(e) # Empty, NEW t, NEW n, t # "covr"
  PROVE  StoredIn(Written(e, "none"), t, n) =
           IF e.tag = t /\ e.name = n THEN Content(e) ELSE StoredIn(itmf_table, t, n)
<1> DEFINE w == Written(e, "none")
           old == {i \in 1 .. Len(itmf_table) : itmf_table[i].tag = t /\ itmf_table[i].name = n}
<1>1. Len(itmf_table) \in Nat
  OBVIOUS
<1>2. CASE Slots(e) = {}
  <2>1. /\ OneSlotIn(w) /\ Len(w) = Len(itmf_table) + 1
        /\ \A k \in 1 .. Len(itmf_table) : w[k] = itmf_table[k]
        /\ w[Len(w)].tag = e.tag /\ w[Len(w)].name = e.name /\ w[Len(w)].data = Content(e)
    BY <1>2, SlotMade
  <2> HIDE DEF w
  <2>2. \A k \in 1 .. Len(w) : k = Len(w) \/ k \in 1 .. Len(itmf_table)
    BY <1>1, <2>1
  <2>3. CASE e.tag = t /\ e.name = n
    <3>1. Len(w) \in 1 .. Len(w)
      BY <1>1, <2>1
    <3> QED
      BY <2>1, <2>3, <3>1, StoredWhere DEF w
  <2>4. CASE ~ (e.tag = t /\ e.name = n) /\ old = {}
    <3>1. \A i \in 1 .. Len(w) : ~ (w[i].tag = t /\ w[i].name = n)
      BY <2>1, <2>2, <2>4
    <3>2. StoredIn(w, t, n) = Empty /\ StoredIn(itmf_table, t, n) = Empty
      BY <2>4, <3>1, StoredNowhere
    <3> QED
      BY <2>4, <3>2 DEF w
  <2>5. CASE ~ (e.tag = t /\ e.name = n) /\ old # {}
    <3>1. PICK i \in 1 .. Len(itmf_table) : itmf_table[i].tag = t /\ itmf_table[i].name = n
      BY <2>5
    <3>2. i \in 1 .. Len(w) /\ w[i] = itmf_table[i]
      BY <1>1, <2>1, <3>1
    <3>3. StoredIn(w, t, n) = w[i].data /\ StoredIn(itmf_table, t, n) = itmf_table[i].data
      BY <2>1, <3>1, <3>2, StoredWhere
    <3> QED
      BY <2>5, <3>2, <3>3 DEF w
  <2> QED
    BY <2>3, <2>4, <2>5
<1>3. CASE Slots(e) # {}
  <2>1. /\ OneSlotIn(w) /\ Len(w) = Len(itmf_table)
        /\ \A k \in 1 .. Len(w) :
             /\ w[k].tag = itmf_table[k].tag /\ w[k].name = itmf_table[k].name
             /\ IF k \in Slots(e) THEN w[k].data = Content(e) ELSE w[k] = itmf_table[k]
    BY <1>3, SlotFound
  <2>2. \A k \in 1 .. Len(itmf_table) :
          k \in Slots(e) <=> /\ e.tag # "covr" /\ itmf_table[k].tag = e.tag
                             /\ itmf_table[k].name = e.name
    BY DEF Slots
  <2>3. PICK h \in 1 .. Len(itmf_table) : h \in Slots(e)
    BY <1>3 DEF Slots
  <2> HIDE DEF w
  <2>4. CASE e.tag = t /\ e.name = n
    <3>1. h \in 1 .. Len(w) /\ w[h].tag = t /\ w[h].name = n /\ w[h].data = Content(e)
      BY <2>1, <2>2, <2>3, <2>4
    <3> QED
      BY <2>1, <2>4, <3>1, StoredWhere DEF w
  <2>5. CASE ~ (e.tag = t /\ e.name = n) /\ old = {}
    <3>1. \A i \in 1 .. Len(w) : ~ (w[i].tag = t /\ w[i].name = n)
      BY <2>1, <2>5
    <3>2. StoredIn(w, t, n) = Empty /\ StoredIn(itmf_table, t, n) = Empty
      BY <2>5, <3>1, StoredNowhere
    <3> QED
      BY <2>5, <3>2 DEF w
  <2>6. CASE ~ (e.tag = t /\ e.name = n) /\ old # {}
    <3>1. PICK i \in 1 .. Len(itmf_table) : itmf_table[i].tag = t /\ itmf_table[i].name = n
      BY <2>6
    <3>2. i \in 1 .. Len(w) /\ w[i] = itmf_table[i]
      BY <2>1, <2>2, <2>6, <3>1
    <3>3. StoredIn(w, t, n) = w[i].data /\ StoredIn(itmf_table, t, n) = itmf_table[i].data
      BY <2>1, <3>1, <3>2, StoredWhere
    <3> QED
      BY <2>6, <3>2, <3>3 DEF w
  <2> QED
    BY <2>4, <2>5, <2>6
<1> QED
  BY <1>2, <1>3

\* What a slot will hold when everything that waits has been written.
Outlook(t, n) == Latest(queue, t, n, StoredIn(itmf_table, t, n))

\* Writing does not change that, as long as no allocation fails.
LEMMA WriteKeepsOutlook ==
  ASSUME TagInv, WriteEntry, ~last_error', NEW t, NEW n, t # "covr"
  PROVE  ~last_error /\ Outlook(t, n)' = Outlook(t, n)
<1> DEFINE e == Head(queue)
           d == StoredIn(itmf_table, t, n)
<1>1. /\ queue \in Seq(Entries) /\ queue # <<>> /\ queue' = Tail(queue)
      /\ itmf_table \in Seq(SlotSet) /\ OneSlotIn(itmf_table)
  BY DEF TagInv, Types, WriteEntry
<1>2. e \in Entries
  BY <1>1
<1>3. ~last_error /\ StoredIn(itmf_table, t, n)' = Latest(<<e>>, t, n, d)
  <2>1. CASE Content(e) = Empty
    <3>1. UNCHANGED <<itmf_table, last_error>>
      BY <2>1 DEF WriteEntry
    <3> HIDE DEF e
    <3>2. Latest(<<e>>, t, n, d) = d
      BY <2>1, LatestOne
    <3> QED
      BY <3>1, <3>2
  <2>2. CASE Content(e) # Empty
    <3>1. PICK fault \in Faults(e) \cup {"none"} :
            itmf_table' = Written(e, fault) /\ last_error' = Noticed(fault)
      BY <2>2 DEF WriteEntry
    <3>2. fault = "none" /\ ~last_error
      BY <3>1 DEF Noticed
    <3> HIDE DEF e, d
    <3>3. StoredIn(Written(e, "none"), t, n) = IF e.tag = t /\ e.name = n THEN Content(e) ELSE d
      BY <1>1, <1>2, <2>2, WrittenStored DEF d
    <3>4. Latest(<<e>>, t, n, d) = IF e.tag = t /\ e.name = n THEN Content(e) ELSE d
      BY <2>2, LatestOne
    <3>5. StoredIn(itmf_table, t, n)' = StoredIn(Written(e, "none"), t, n)
      BY <3>1, <3>2
    <3> QED
      BY <3>2, <3>3, <3>4, <3>5
  <2> QED
    BY <2>1, <2>2
<1>4. Latest(queue, t, n, d) = Latest(Tail(queue), t, n, Latest(<<e>>, t, n, d))
  <2> HIDE DEF d
  <2> QED
    BY <1>1, LatestFirst
<1>5. Outlook(t, n)' = Latest(Tail(queue), t, n, StoredIn(itmf_table, t, n)')
  BY <1>1 DEF Outlook
<1> QED
  BY <1>3, <1>4, <1>5 DEF Outlook

-----------------------------------------------------------------------------
\* The tags that calls may bring; those of a number and its total, and others.
Paired == {"trkn", "disk"}
Single == {"tmpo", "cpil", "tool", "text"}
Own == Paired \cup Single

\* What is submitted is a number with its total, if there is a number.
LEMMA SubmittedLatest ==
  ASSUME NEW tag \in Paired, NEW m \in Nat, NEW k \in Nat, NEW t, NEW n, NEW d
  PROVE  /\ Submitted(tag, m, k) \in Seq(Entries)
         /\ Latest(Submitted(tag, m, k), t, n, d) =
              IF m # 0 /\ t = tag /\ n = Blank THEN Pair(Blank, Field16(m), Field16(k)) ELSE d
<1>1. /\ "n" \in Texts /\ "n/t" \in Texts /\ Blank \in Texts /\ tag \in Codes
  BY TextsAssumption DEF Paired, Codes
<1>2. CASE m = 0
  <2> DEFINE s == Submitted(tag, m, k)
  <2>1. s = <<>>
    BY <1>2 DEF Submitted
  <2>2. Latest(<<>>, t, n, d) = d
    BY LatestOne
  <2>3. <<>> \in Seq(Entries)
    OBVIOUS
  <2> HIDE DEF s
  <2>4. s \in Seq(Entries) /\ Latest(s, t, n, d) = d
    BY <2>1, <2>2, <2>3
  <2> QED
    BY <1>2, <2>4 DEF s
<1>3. ASSUME NEW e \in Entries, m # 0, Submitted(tag, m, k) = <<e>>, e.tag = tag, e.name = Blank,
             Content(e) = Pair(Blank, Field16(m), Field16(k))
      PROVE  /\ Submitted(tag, m, k) \in Seq(Entries)
             /\ Latest(Submitted(tag, m, k), t, n, d) =
                  IF m # 0 /\ t = tag /\ n = Blank THEN Pair(Blank, Field16(m), Field16(k)) ELSE d
  <2>1. Pair(Blank, Field16(m), Field16(k)) # Empty
    <3>1. \A x, y : Pair(Blank, x, y).nums = <<x, y>> /\ Empty.nums = <<>> /\ <<x, y>> # <<>>
      BY DEF Pair, Empty, Text
    <3> QED
      BY <3>1
  <2> DEFINE s == Submitted(tag, m, k)
             c == Pair(Blank, Field16(m), Field16(k))
  <2>2. Latest(<<e>>, t, n, d) =
          IF e.tag = t /\ e.name = n /\ Content(e) # Empty THEN Content(e) ELSE d
    BY LatestOne
  <2> HIDE DEF s, c
  <2>3. Latest(<<e>>, t, n, d) = IF m # 0 /\ t = tag /\ n = Blank THEN c ELSE d
    BY <1>3, <2>1, <2>2 DEF c
  <2>4. s = <<e>> /\ <<e>> \in Seq(Entries)
    BY <1>3 DEF s
  <2> QED
    BY <2>3, <2>4 DEF s, c
<1>4. CASE m # 0 /\ k = 0
  <2> DEFINE e == Entry(tag, Blank, Number("n", m))
  <2>1. Submitted(tag, m, k) = <<e>> /\ e.tag = tag /\ e.name = Blank
    BY <1>4 DEF Submitted, Entry
  <2>2. e \in Entries
    BY <1>1, ValueTypes, EntryType
  <2>3. Content(e) = Pair(Blank, Field16(m), Field16(k))
    <3>1. e.value.nums = <<m>> /\ <<m>> # <<>> /\ Len(<<m>>) = 1 /\ <<m>>[1] = m
      BY DEF Entry, Number
    <3>2. Content(e) = Pair(Blank, Field16(m), 0)
      <4> HIDE DEF e
      <4> QED
        BY <2>1, <3>1 DEF Content, Paired
    <3>3. Field16(0) = 0
      BY DEF Field16
    <3> QED
      BY <1>4, <3>2, <3>3
  <2> HIDE DEF e
  <2> QED
    BY <1>3, <1>4, <2>1, <2>2, <2>3
<1>5. CASE m # 0 /\ k # 0
  <2> DEFINE e == Entry(tag, Blank, Pair("n/t", m, k))
  <2>1. Submitted(tag, m, k) = <<e>> /\ e.tag = tag /\ e.name = Blank
    BY <1>5 DEF Submitted, Entry
  <2>2. e \in Entries
    BY <1>1, ValueTypes, EntryType
  <2>3. Content(e) = Pair(Blank, Field16(m), Field16(k))
    <3>1. e.value.nums = <<m, k>> /\ <<m, k>> # <<>> /\ Len(<<m, k>>) = 2
          /\ <<m, k>>[1] = m /\ <<m, k>>[2] = k
      BY DEF Entry, Pair
    <3> QED
      BY <2>1, <3>1 DEF Content, Paired
  <2> HIDE DEF e
  <2> QED
    BY <1>3, <1>5, <2>1, <2>2, <2>3
<1> QED
  BY <1>2, <1>4, <1>5

\* What a call adds to the slots, if its name is found: to submit fills the
\* slots of both pairs, other names fill a slot of their own, if they are no
\* part of a pair and their value can be used.
LEMMA AddedLatest ==
  ASSUME NEW ctx \in PairSet, NEW call \in CallSet,
         call.row # 0 => FoundRow(call.row) = call.row,
         NEW t, NEW n, NEW d
  PROVE  Latest(Added(ctx, call), t, n, d) =
           IF n # Blank THEN d
           ELSE IF call.row = 0
             THEN IF t = "trkn" /\ ctx["track"] # 0
                    THEN Pair(Blank, Field16(ctx["track"]), Field16(ctx["track_total"]))
                  ELSE IF t = "disk" /\ ctx["disc"] # 0
                    THEN Pair(Blank, Field16(ctx["disc"]), Field16(ctx["disc_total"]))
                  ELSE d
           ELSE IF t \in Single /\ TagOfRow(call.row) = t
                   /\ Content(Entry(t, Blank, call.value)) # Empty
             THEN Content(Entry(t, Blank, call.value)) ELSE d
<1> DEFINE tag == TagOfRow(call.row)
<1>1. /\ ctx["track"] \in Nat /\ ctx["track_total"] \in Nat
      /\ ctx["disc"] \in Nat /\ ctx["disc_total"] \in Nat
  BY DEF PairSet, Fields
<1>2. CASE call.row = 0
  <2> DEFINE s1 == Submitted("trkn", ctx["track"], ctx["track_total"])
             s2 == Submitted("disk", ctx["disc"], ctx["disc_total"])
             d1 == Latest(s1, t, n, d)
             p1 == Pair(Blank, Field16(ctx["track"]), Field16(ctx["track_total"]))
             p2 == Pair(Blank, Field16(ctx["disc"]), Field16(ctx["disc_total"]))
  <2>1. Added(ctx, call) = s1 \o s2
    BY <1>2 DEF Added
  <2>2. "trkn" \in Paired /\ "disk" \in Paired
    BY DEF Paired
  <2>3. /\ s1 \in Seq(Entries)
        /\ d1 = IF ctx["track"] # 0 /\ t = "trkn" /\ n = Blank THEN p1 ELSE d
    BY <1>1, <2>2, SubmittedLatest
  <2>4. /\ s2 \in Seq(Entries)
        /\ \A x : Latest(s2, t, n, x) = IF ctx["disc"] # 0 /\ t = "disk" /\ n = Blank THEN p2 ELSE x
    BY <1>1, <2>2, SubmittedLatest
  <2> HIDE DEF s1, s2, p1, p2
  <2>5. Latest(s1 \o s2, t, n, d) = Latest(s2, t, n, d1)
    BY <2>3, <2>4, LatestBoth
  <2> HIDE DEF d1
  <2>6. Latest(s1 \o s2, t, n, d) =
           IF n # Blank THEN d ELSE IF t = "trkn" /\ ctx["track"] # 0 THEN p1
           ELSE IF t = "disk" /\ ctx["disc"] # 0 THEN p2 ELSE d
    BY <2>3, <2>4, <2>5
  <2> QED
    BY <1>2, <2>1, <2>6 DEF p1, p2
<1>3. CASE call.row # 0
  <2>1. tag \in {"trkn", "disk", "total tracks", "total discs", "tmpo", "cpil", "text"}
    BY DEF TagOfRow
  <2>2. Latest(<<>>, t, n, d) = d
    BY LatestOne
  <2> DEFINE e == Entry(tag, Blank, call.value)
             c == Content(Entry(t, Blank, call.value))
  <2>3. Latest(<<e>>, t, n, d) = IF tag = t /\ n = Blank /\ c # Empty THEN c ELSE d
    <3>1. e.tag = tag /\ e.name = Blank
      BY DEF Entry
    <3>2. Latest(<<e>>, t, n, d) =
            IF e.tag = t /\ e.name = n /\ Content(e) # Empty THEN Content(e) ELSE d
      <4> HIDE DEF e
      <4> QED
        BY LatestOne
    <3>3. tag = t => Content(e) = c
      OBVIOUS
    <3> HIDE DEF e, c, tag
    <3> QED
      BY <3>1, <3>2, <3>3
  <2>4. call.value = Empty /\ t \in Single => c = Empty
    <3>1. Empty.nums = <<>> /\ Empty.text = Blank /\ Text(Blank) = Empty
      BY DEF Empty, Text
    <3>2. Entry(t, Blank, Empty).tag = t /\ Entry(t, Blank, Empty).value = Empty
      BY DEF Entry
    <3>3. t \in Single => Content(Entry(t, Blank, Empty)) = Empty
      BY <3>1, <3>2 DEF Content, Single
    <3> QED
      BY <3>3
  <2>5. Added(ctx, call) =
          IF call.value = Empty \/ tag \in {"trkn", "disk", "total tracks", "total discs"}
            THEN <<>> ELSE <<e>>
    BY <1>3 DEF Added
  <2> HIDE DEF e, c, tag
  <2>6. Latest(Added(ctx, call), t, n, d) =
          IF n = Blank /\ t \in Single /\ tag = t /\ c # Empty THEN c ELSE d
    <3>1. CASE call.value = Empty
      BY <2>2, <2>4, <2>5, <3>1
    <3>2. CASE tag \in {"trkn", "disk", "total tracks", "total discs"}
      BY <2>2, <2>5, <3>2 DEF Single
    <3>3. CASE call.value # Empty /\ tag \in {"tmpo", "cpil", "text"}
      BY <2>3, <2>5, <3>3 DEF Single
    <3> QED
      BY <2>1, <3>1, <3>2, <3>3
  <2> QED
    BY <1>3, <2>6 DEF c, tag
<1> QED
  BY <1>2, <1>3

-----------------------------------------------------------------------------
(***************************************************************************)
(* Lists of calls.  After the first k calls of a list, the context has the *)
(* last number and the last total of these, and the slot of a tag is about *)
(* to hold v, where it held d before.                                      *)
(***************************************************************************)
NumberAt(list) == [i \in 1 .. Len(list) |-> list[i].value.nums[1]]
TotalAt(list, total) == [i \in 1 .. Len(list) |-> TotalOf(list[i], total)]
ContentAt(list, t, n) == [i \in 1 .. Len(list) |-> Content(Entry(t, n, list[i].value))]

Usable(list, meant, t, n) == {i \in meant : Content(Entry(t, n, list[i].value)) # Empty}

\* A pair is in the slot once it has been submitted.
PairSeen(list, k, tag, total, m, n, d, v) ==
  /\ LastAt(NumbersIn(list, tag), k, NumberAt(list), 0, m)
  /\ LastAt(TotalsIn(list, tag, total), k, TotalAt(list, total), 0, n)
  /\ IF m = 0 THEN v = d
     ELSE k > 0 /\ list[k].row = 0 => v = Pair(Blank, Field16(m), Field16(n))

OtherSeen(list, k, t, d, v) ==
  LastAt(Usable(list, Naming(list, {t}), t, Blank), k, ContentAt(list, t, Blank), d, v)

Seen(list, k, ctx, t, d, v) ==
  IF t = "trkn"
    THEN PairSeen(list, k, "trkn", "total tracks", ctx["track"], ctx["track_total"], d, v)
  ELSE IF t = "disk"
    THEN PairSeen(list, k, "disk", "total discs", ctx["disc"], ctx["disc_total"], d, v)
  ELSE OtherSeen(list, k, t, d, v)

\* The places of a list that are spoken of are places of the list.
LEMMA PlacesInList ==
  ASSUME NEW list, NEW tag, NEW total, NEW n
  PROVE  /\ NumbersIn(list, tag) \in SUBSET (1 .. Len(list))
         /\ TotalsIn(list, tag, total) \in SUBSET (1 .. Len(list))
         /\ Usable(list, Naming(list, {tag}), tag, n) \in SUBSET (1 .. Len(list))
BY DEF NumbersIn, TotalsIn, Usable, Naming

\* What a call does to a pair of the context.
PairTaken(tag, total, call, m, n, m1, n1) ==
  LET named == IF call.row = 0 THEN "none" ELSE TagOfRow(call.row)
      nums == call.value.nums
  IN  /\ m1 = IF named = tag /\ nums # <<>> THEN nums[1] ELSE m
      /\ n1 = IF named = total /\ nums # <<>> THEN nums[1]
              ELSE IF named = tag /\ Len(nums) = 2 THEN nums[2] ELSE n

\* A call does so to both pairs.
LEMMA PairsTaken ==
  ASSUME NEW ctx \in PairSet, NEW call \in CallSet,
         call.row # 0 => FoundRow(call.row) = call.row
  PROVE  LET after == PairsAfter(ctx, call)
         IN  /\ PairTaken("trkn", "total tracks", call, ctx["track"], ctx["track_total"],
                          after["track"], after["track_total"])
             /\ PairTaken("disk", "total discs", call, ctx["disc"], ctx["disc_total"],
                          after["disc"], after["disc_total"])
<1> DEFINE tag == TagOfRow(call.row)
           nums == call.value.nums
           after == PairsAfter(ctx, call)
<1>1. tag \in {"trkn", "disk", "total tracks", "total discs", "tmpo", "cpil", "text"}
  BY DEF TagOfRow
<1>2. nums \in Seq(Nat) /\ Len(nums) \in Nat /\ (nums # <<>> <=> Len(nums) >= 1)
  BY DEF CallSet, Values
<1>3. call.value = Empty => nums = <<>>
  BY DEF Empty, Text
<1>4. after =
        IF call.row = 0 \/ call.value = Empty THEN ctx
        ELSE CASE tag = "trkn" -> WithPair(ctx, "track", "track_total", nums)
               [] tag = "disk" -> WithPair(ctx, "disc", "disc_total", nums)
               [] tag = "total tracks" -> WithTotal(ctx, "track_total", nums)
               [] tag = "total discs" -> WithTotal(ctx, "disc_total", nums)
               [] OTHER -> ctx
  BY DEF PairsAfter
<1>5. ctx = [f \in Fields |-> ctx[f]]
  BY DEF PairSet
<1> HIDE DEF tag, nums, after
<1>6. CASE call.row = 0 \/ nums = <<>>
  <2>1. after = ctx
    <3>1. \A number, total \in Fields :
            nums = <<>> => /\ WithPair(ctx, number, total, nums) = ctx
                           /\ WithTotal(ctx, total, nums) = ctx
      <4> SUFFICES ASSUME NEW number \in Fields, NEW total \in Fields, nums = <<>>
                   PROVE  /\ WithPair(ctx, number, total, nums) = ctx
                          /\ WithTotal(ctx, total, nums) = ctx
        OBVIOUS
      <4>1. ~ (Len(nums) >= 1) /\ ~ (Len(nums) = 2)
        BY <1>2
      <4>2. /\ WithPair(ctx, number, total, nums) =
                 [ctx EXCEPT ![number] = ctx[number], ![total] = ctx[total]]
            /\ WithTotal(ctx, total, nums) = [ctx EXCEPT ![total] = ctx[total]]
        BY <4>1, <1>5 DEF WithPair, WithTotal
      <4> QED
        BY <4>2, <1>5
    <3>2. nums = <<>> => /\ WithPair(ctx, "track", "track_total", nums) = ctx
                         /\ WithPair(ctx, "disc", "disc_total", nums) = ctx
                         /\ WithTotal(ctx, "track_total", nums) = ctx
                         /\ WithTotal(ctx, "disc_total", nums) = ctx
      BY <3>1 DEF Fields
    <3> QED
      BY <1>1, <1>4, <1>6, <3>2
  <2>2. Len(nums) = 2 => nums # <<>>
    BY <1>2
  <2> QED
    BY <1>6, <2>1, <2>2, Zenon DEF PairTaken, tag, nums, after
<1>7. CASE call.row # 0 /\ nums # <<>>
  <2>1. \A number, total \in Fields :
          number # total =>
            /\ WithPair(ctx, number, total, nums)[number] = nums[1]
            /\ WithPair(ctx, number, total, nums)[total] =
                 IF Len(nums) = 2 THEN nums[2] ELSE ctx[total]
            /\ \A f \in Fields \ {number, total} : WithPair(ctx, number, total, nums)[f] = ctx[f]
    BY <1>2, <1>5, <1>7 DEF WithPair
  <2>2. \A total \in Fields :
          /\ WithTotal(ctx, total, nums)[total] = nums[1]
          /\ \A f \in Fields \ {total} : WithTotal(ctx, total, nums)[f] = ctx[f]
    BY <1>2, <1>5, <1>7 DEF WithTotal
  <2>3. call.value # Empty
    BY <1>3, <1>7
  <2>4. CASE tag = "trkn"
    <3>1. after = WithPair(ctx, "track", "track_total", nums)
      BY <1>4, <1>7, <2>3, <2>4
    <3>2. /\ after["track"] = nums[1]
          /\ after["track_total"] = IF Len(nums) = 2 THEN nums[2] ELSE ctx["track_total"]
          /\ after["disc"] = ctx["disc"] /\ after["disc_total"] = ctx["disc_total"]
      BY <2>1, <3>1 DEF Fields
    <3> QED
      BY <1>7, <2>4, <3>2 DEF PairTaken, tag, nums, after
  <2>5. CASE tag = "disk"
    <3>1. after = WithPair(ctx, "disc", "disc_total", nums)
      BY <1>4, <1>7, <2>3, <2>5
    <3>2. /\ after["disc"] = nums[1]
          /\ after["disc_total"] = IF Len(nums) = 2 THEN nums[2] ELSE ctx["disc_total"]
          /\ after["track"] = ctx["track"] /\ after["track_total"] = ctx["track_total"]
      BY <2>1, <3>1 DEF Fields
    <3> QED
      BY <1>7, <2>5, <3>2 DEF PairTaken, tag, nums, after
  <2>6. CASE tag = "total tracks"
    <3>1. after = WithTotal(ctx, "track_total", nums)
      BY <1>4, <1>7, <2>3, <2>6
    <3>2. /\ after["track_total"] = nums[1] /\ after["track"] = ctx["track"]
          /\ after["disc"] = ctx["disc"] /\ after["disc_total"] = ctx["disc_total"]
      BY <2>2, <3>1 DEF Fields
    <3> QED
      BY <1>7, <2>6, <3>2 DEF PairTaken, tag, nums, after
  <2>7. CASE tag = "total discs"
    <3>1. after = WithTotal(ctx, "disc_total", nums)
      BY <1>4, <1>7, <2>3, <2>7
    <3>2. /\ after["disc_total"] = nums[1] /\ after["disc"] = ctx["disc"]
          /\ after["track"] = ctx["track"] /\ after["track_total"] = ctx["track_total"]
      BY <2>2, <3>1 DEF Fields
    <3> QED
      BY <1>7, <2>7, <3>2 DEF PairTaken, tag, nums, after
  <2>8. CASE tag \in {"tmpo", "cpil", "text"}
    <3>1. after = ctx
      BY <1>4, <2>8
    <3> QED
      BY <2>8, <3>1 DEF PairTaken, tag, nums, after
  <2> QED
    BY <1>1, <2>4, <2>5, <2>6, <2>7, <2>8
<1> QED
  BY <1>6, <1>7 DEF after

\* What is in the slot of a pair m, n after a call, if v was in it.
PairSent(call, m, n, v) ==
  IF call.row = 0 /\ m # 0 THEN Pair(Blank, Field16(m), Field16(n)) ELSE v

Totals == {"total tracks", "total discs"}

\* The next call, for a pair: w is what is in its slot then.
LEMMA PairStep ==
  ASSUME NEW list \in Seq(CallSet), NEW k \in Nat, k + 1 \in 1 .. Len(list), IsPlain(list[k + 1]),
         NEW tag \in Paired, NEW total \in Totals,
         NEW m, NEW n, NEW m1, NEW n1, PairTaken(tag, total, list[k + 1], m, n, m1, n1),
         NEW d, NEW v, NEW w, PairSeen(list, k, tag, total, m, n, d, v),
         w = PairSent(list[k + 1], m, n, v)
  PROVE  PairSeen(list, k + 1, tag, total, m1, n1, d, w)
<1> DEFINE call == list[k + 1]
           nums == call.value.nums
           numbers == NumbersIn(list, tag)
           totals == TotalsIn(list, tag, total)
<1>1. numbers \in SUBSET Int /\ totals \in SUBSET Int /\ k \in Int /\ k + 1 > 0
  <2>1. numbers \in SUBSET (1 .. Len(list)) /\ totals \in SUBSET (1 .. Len(list))
    BY PlacesInList
  <2> HIDE DEF numbers, totals
  <2> QED
    BY <2>1
<1>2. call \in CallSet
  <2>1. \A i \in 1 .. Len(list) : list[i] \in CallSet
    OBVIOUS
  <2> QED
    BY <2>1, Zenon
<1>3. nums \in Seq(Nat) /\ (Len(nums) = 2 => nums # <<>>)
  <2>1. nums \in Seq(Nat)
    BY <1>2 DEF CallSet, Values
  <2>2. Len(<<>>) # 2
    OBVIOUS
  <2> HIDE DEF nums
  <2> QED
    BY <2>1, <2>2
<1>4. k + 1 \in numbers <=> call.row # 0 /\ TagOfRow(call.row) = tag /\ nums # <<>>
  BY DEF NumbersIn, Naming
<1>5. k + 1 \in totals <=>
        call.row # 0 /\ \/ TagOfRow(call.row) = total /\ nums # <<>>
                        \/ TagOfRow(call.row) = tag /\ Len(nums) = 2
  BY DEF TotalsIn, Naming
<1>6. NumberAt(list)[k + 1] = nums[1]
  BY DEF NumberAt
<1>7. TotalAt(list, total)[k + 1] = IF TagOfRow(call.row) = total THEN nums[1] ELSE nums[2]
  BY DEF TotalAt, TotalOf
<1>8. tag # total
  BY DEF Paired, Totals
<1>9. /\ LastAt(numbers, k, NumberAt(list), 0, m)
      /\ LastAt(totals, k, TotalAt(list, total), 0, n)
  BY DEF PairSeen
<1>10. tag # "none" /\ total # "none"
  BY DEF Paired, Totals
<1>11. /\ m1 = IF k + 1 \in numbers THEN nums[1] ELSE m
       /\ n1 = IF k + 1 \in totals THEN TotalAt(list, total)[k + 1] ELSE n
  <2>1. /\ m1 = IF call.row # 0 /\ TagOfRow(call.row) = tag /\ nums # <<>> THEN nums[1] ELSE m
        /\ n1 = IF call.row # 0 /\ TagOfRow(call.row) = total /\ nums # <<>> THEN nums[1]
                ELSE IF call.row # 0 /\ TagOfRow(call.row) = tag /\ Len(nums) = 2 THEN nums[2]
                ELSE n
    BY <1>10 DEF PairTaken
  <2> HIDE DEF call, nums, numbers, totals
  <2> QED
    BY <1>3, <1>4, <1>5, <1>7, <1>8, <2>1
<1>12. k + 1 \in numbers => m1 # 0 /\ call.row # 0
  BY <1>4, <1>11 DEF IsPlain, Paired
<1> HIDE DEF numbers, totals, nums
<1>13. LastAt(numbers, k + 1, NumberAt(list), 0, m1)
  BY <1>1, <1>6, <1>9, <1>11, LastStep
<1>14. LastAt(totals, k + 1, TotalAt(list, total), 0, n1)
  BY <1>1, <1>9, <1>11, LastStep
<1>15. call.row = 0 => m1 = m /\ n1 = n
  BY <1>4, <1>5, <1>11
<1>16. IF m = 0 THEN v = d
       ELSE k > 0 /\ list[k].row = 0 => v = Pair(Blank, Field16(m), Field16(n))
  BY DEF PairSeen
<1>17. IF m1 = 0 THEN w = d
       ELSE k + 1 > 0 /\ call.row = 0 => w = Pair(Blank, Field16(m1), Field16(n1))
  <2>1. CASE call.row = 0
    BY <1>15, <1>16, <2>1 DEF PairSent
  <2>2. CASE call.row # 0
    BY <1>11, <1>12, <1>16, <2>2 DEF PairSent
  <2> QED
    BY <2>1, <2>2
<1> QED
  BY <1>13, <1>14, <1>17 DEF PairSeen, numbers, totals, call

\* The next call, for any tag.
LEMMA SeenStep ==
  ASSUME NEW list \in Seq(CallSet), NEW k \in Nat, k + 1 \in 1 .. Len(list), IsPlain(list[k + 1]),
         NEW ctx \in PairSet, NEW t \in Own, NEW d, NEW v, Seen(list, k, ctx, t, d, v)
  PROVE  Seen(list, k + 1, PairsAfter(ctx, list[k + 1]), t, d,
              Latest(Added(ctx, list[k + 1]), t, Blank, v))
<1> DEFINE call == list[k + 1]
           after == PairsAfter(ctx, call)
           w == Latest(Added(ctx, call), t, Blank, v)
<1>1. call \in CallSet /\ (call.row # 0 => FoundRow(call.row) = call.row)
  BY DEF IsPlain
<1>2. /\ PairTaken("trkn", "total tracks", call, ctx["track"], ctx["track_total"],
                   after["track"], after["track_total"])
      /\ PairTaken("disk", "total discs", call, ctx["disc"], ctx["disc_total"],
                   after["disc"], after["disc_total"])
  BY <1>1, PairsTaken
<1>3. w = IF call.row = 0
            THEN IF t = "trkn" /\ ctx["track"] # 0
                   THEN Pair(Blank, Field16(ctx["track"]), Field16(ctx["track_total"]))
                 ELSE IF t = "disk" /\ ctx["disc"] # 0
                   THEN Pair(Blank, Field16(ctx["disc"]), Field16(ctx["disc_total"]))
                 ELSE v
          ELSE IF t \in Single /\ TagOfRow(call.row) = t
                  /\ Content(Entry(t, Blank, call.value)) # Empty
            THEN Content(Entry(t, Blank, call.value)) ELSE v
  BY <1>1, AddedLatest
<1>4. /\ "trkn" \in Paired /\ "disk" \in Paired /\ "trkn" \notin Single /\ "disk" \notin Single
      /\ "total tracks" \in Totals /\ "total discs" \in Totals
  BY DEF Paired, Single, Totals
<1> HIDE DEF w, after
<1>5. CASE t = "trkn"
  <2>1. PairSeen(list, k, "trkn", "total tracks", ctx["track"], ctx["track_total"], d, v)
    BY <1>5 DEF Seen
  <2>2. w = PairSent(call, ctx["track"], ctx["track_total"], v)
    BY <1>3, <1>4, <1>5 DEF PairSent
  <2>3. PairSeen(list, k + 1, "trkn", "total tracks", after["track"], after["track_total"], d, w)
    BY <1>2, <1>4, <2>1, <2>2, PairStep
  <2> QED
    BY <1>5, <2>3 DEF Seen, w, after
<1>6. CASE t = "disk"
  <2>1. PairSeen(list, k, "disk", "total discs", ctx["disc"], ctx["disc_total"], d, v)
    BY <1>6 DEF Seen
  <2>2. w = PairSent(call, ctx["disc"], ctx["disc_total"], v)
    BY <1>3, <1>4, <1>6 DEF PairSent
  <2>3. PairSeen(list, k + 1, "disk", "total discs", after["disc"], after["disc_total"], d, w)
    BY <1>2, <1>4, <2>1, <2>2, PairStep
  <2> QED
    BY <1>6, <2>3 DEF Seen, w, after
<1>7. CASE t \in Single
  <2> DEFINE M == Usable(list, Naming(list, {t}), t, Blank)
             F == ContentAt(list, t, Blank)
  <2>1. LastAt(M, k, F, d, v)
    BY <1>4, <1>7 DEF Seen, OtherSeen
  <2>2. M \in SUBSET Int /\ k \in Int
    <3>1. M \in SUBSET (1 .. Len(list))
      BY PlacesInList
    <3> HIDE DEF M
    <3> QED
      BY <3>1
  <2>3. k + 1 \in M <=> call.row # 0 /\ TagOfRow(call.row) = t
                        /\ Content(Entry(t, Blank, call.value)) # Empty
    BY DEF Usable, Naming
  <2>4. F[k + 1] = Content(Entry(t, Blank, call.value))
    BY DEF ContentAt
  <2>5. w = IF k + 1 \in M THEN F[k + 1] ELSE v
    BY <1>3, <1>4, <1>7, <2>3, <2>4
  <2> HIDE DEF M, F
  <2>6. LastAt(M, k + 1, F, d, w)
    BY <2>1, <2>2, <2>5, LastStep
  <2> QED
    BY <1>4, <1>7, <2>6 DEF Seen, OtherSeen, M, F, w, after
<1> QED
  BY <1>5, <1>6, <1>7 DEF Own, Paired

\* Before the first call.
LEMMA SeenStart ==
  ASSUME NEW list, NEW t, NEW d
  PROVE  Seen(list, 0, NoPairs, t, d, d)
<1>1. \A f \in Fields : NoPairs[f] = 0
  BY DEF NoPairs
<1>2. /\ NoPairs["track"] = 0 /\ NoPairs["track_total"] = 0
      /\ NoPairs["disc"] = 0 /\ NoPairs["disc_total"] = 0
  BY <1>1 DEF Fields
<1>3. \A tag, total : PairSeen(list, 0, tag, total, 0, 0, d, d)
  <2> SUFFICES ASSUME NEW tag, NEW total PROVE PairSeen(list, 0, tag, total, 0, 0, d, d)
    OBVIOUS
  <2>1. /\ NumbersIn(list, tag) \in SUBSET (1 .. Len(list))
        /\ TotalsIn(list, tag, total) \in SUBSET (1 .. Len(list))
    BY PlacesInList
  <2> QED
    BY <2>1, LastAtFirst DEF PairSeen
<1>4. OtherSeen(list, 0, t, d, d)
  <2>1. Usable(list, Naming(list, {t}), t, Blank) \in SUBSET (1 .. Len(list))
    BY PlacesInList
  <2> QED
    BY <2>1, LastAtFirst DEF OtherSeen
<1> QED
  BY <1>2, <1>3, <1>4 DEF Seen

\* A list of calls that ends by submitting the pairs.
Submits(list) == list = <<>> \/ list[Len(list)].row = 0

\* After all calls there is what the list has, or else what was there before.
LEMMA PairEnd ==
  ASSUME NEW list \in Seq(CallSet), \A i \in 1 .. Len(list) : IsPlain(list[i]), Submits(list),
         NEW tag \in Paired, NEW total, NEW m, NEW n, NEW d, NEW v,
         PairSeen(list, Len(list), tag, total, m, n, d, v)
  PROVE  v = IF PairIn(list, tag, total) # Empty THEN PairIn(list, tag, total) ELSE d
<1> DEFINE numbers == NumbersIn(list, tag)
           totals == TotalsIn(list, tag, total)
           F == NumberAt(list)
           G == TotalAt(list, total)
<1>1. PICK l \in Nat : l = Len(list)
  OBVIOUS
<1>2. numbers \in SUBSET (1 .. l) /\ totals \in SUBSET (1 .. l)
  BY <1>1, PlacesInList
<1>3. /\ \A i \in 1 .. l : F[i] = list[i].value.nums[1]
      /\ \A i \in 1 .. l : G[i] = TotalOf(list[i], total)
  BY <1>1 DEF NumberAt, TotalAt
<1>4. \A i \in numbers : F[i] # 0
  <2> SUFFICES ASSUME NEW i \in numbers PROVE F[i] # 0
    OBVIOUS
  <2>1. i \in 1 .. l /\ list[i].row # 0 /\ TagOfRow(list[i].row) = tag /\ list[i].value.nums # <<>>
    BY <1>1 DEF NumbersIn, Naming
  <2>2. IsPlain(list[i])
    BY <1>1, <2>1
  <2> QED
    BY <1>3, <2>1, <2>2 DEF IsPlain, Paired
<1>5. /\ LastAt(numbers, l, F, 0, m) /\ LastAt(totals, l, G, 0, n)
      /\ IF m = 0 THEN v = d
         ELSE l > 0 /\ list[l].row = 0 => v = Pair(Blank, Field16(m), Field16(n))
  BY <1>1 DEF PairSeen
<1>6. PairIn(list, tag, total) =
        IF numbers = {} THEN Empty
        ELSE Pair(Blank, Field16(list[Max(numbers)].value.nums[1]),
                  IF totals = {} THEN 0 ELSE Field16(TotalOf(list[Max(totals)], total)))
  BY DEF PairIn
<1>7. list = <<>> <=> l = 0
  BY <1>1
<1>8. l # 0 => list[l].row = 0
  BY <1>1, <1>7 DEF Submits
<1> HIDE DEF numbers, totals, F, G
<1>9. /\ m = IF numbers = {} THEN 0 ELSE F[Max(numbers)]
      /\ n = IF totals = {} THEN 0 ELSE G[Max(totals)]
  <2>1. numbers \in SUBSET Int /\ totals \in SUBSET Int /\ l \in Int
    BY <1>2
  <2>2. /\ LastAt(numbers, l, F, 0, IF numbers = {} THEN 0 ELSE F[Max(numbers)])
        /\ LastAt(totals, l, G, 0, IF totals = {} THEN 0 ELSE G[Max(totals)])
    BY <1>2, LastOfAll
  <2> DEFINE m1 == IF numbers = {} THEN 0 ELSE F[Max(numbers)]
             n1 == IF totals = {} THEN 0 ELSE G[Max(totals)]
  <2> HIDE DEF m1, n1
  <2>3. LastAt(numbers, l, F, 0, m1) /\ LastAt(totals, l, G, 0, n1)
    BY <2>2 DEF m1, n1
  <2>4. m = m1 /\ n = n1
    BY <1>5, <2>1, <2>3, LastUnique
  <2> QED
    BY <2>4 DEF m1, n1
<1>10. /\ numbers # {} => Max(numbers) \in numbers
       /\ totals # {} => Max(totals) \in totals
  <2>1. /\ numbers \in SUBSET Int /\ totals \in SUBSET Int /\ l \in Int
        /\ \A y \in numbers : y <= l
        /\ \A y \in totals : y <= l
    BY <1>2
  <2> QED
    BY <2>1, MaxOf
<1>11. CASE numbers = {}
  <2>1. m = 0 /\ PairIn(list, tag, total) = Empty
    BY <1>6, <1>9, <1>11
  <2> QED
    BY <1>5, <2>1
<1>12. CASE numbers # {}
  <2>1. Max(numbers) \in 1 .. l /\ m = F[Max(numbers)] /\ m # 0
    BY <1>2, <1>4, <1>9, <1>10, <1>12
  <2>2. m = list[Max(numbers)].value.nums[1]
    BY <1>3, <2>1
  <2>3. Field16(n) = IF totals = {} THEN 0 ELSE Field16(TotalOf(list[Max(totals)], total))
    <3>1. CASE totals = {}
      <4>1. n = 0 /\ Field16(0) = 0
        BY <1>9, <3>1 DEF Field16
      <4> QED
        BY <3>1, <4>1
    <3>2. CASE totals # {}
      <4>1. Max(totals) \in 1 .. l /\ n = G[Max(totals)]
        BY <1>2, <1>9, <1>10, <3>2
      <4>2. n = TotalOf(list[Max(totals)], total)
        BY <1>3, <4>1
      <4> QED
        BY <3>2, <4>2
    <3> QED
      BY <3>1, <3>2
  <2>4. PairIn(list, tag, total) = Pair(Blank, Field16(m), Field16(n))
    BY <1>6, <1>12, <2>2, <2>3
  <2>5. v = Pair(Blank, Field16(m), Field16(n))
    <3>1. l > 0 /\ list[l].row = 0
      BY <1>8, <2>1
    <3> QED
      BY <1>5, <2>1, <3>1
  <2>6. \A x, y : Pair(Blank, x, y) # Empty
    <3>1. \A x, y : Pair(Blank, x, y).nums = <<x, y>> /\ Empty.nums = <<>> /\ <<x, y>> # <<>>
      BY DEF Pair, Empty, Text
    <3> QED
      BY <3>1
  <2> QED
    BY <2>4, <2>5, <2>6
<1> QED
  BY <1>11, <1>12

\* The same for a tag that is no pair, and for options.
LEMMA UsableEnd ==
  ASSUME NEW S, NEW list \in Seq(S), NEW meant, NEW t, NEW n, NEW d, NEW v,
         Usable(list, meant, t, n) \in SUBSET (1 .. Len(list)),
         LastAt(Usable(list, meant, t, n), Len(list), ContentAt(list, t, n), d, v)
  PROVE  v = IF LastUsable(list, meant, t, n) # Empty THEN LastUsable(list, meant, t, n) ELSE d
<1> DEFINE M == Usable(list, meant, t, n)
           F == ContentAt(list, t, n)
           last == LastUsable(list, meant, t, n)
<1>1. PICK l \in Nat : l = Len(list)
  OBVIOUS
<1>2. \A i \in M : F[i] = Content(Entry(t, n, list[i].value)) /\ F[i] # Empty
  BY DEF ContentAt, Usable
<1>3. last = IF M = {} THEN Empty ELSE Content(Entry(t, n, list[Max(M)].value))
  BY DEF LastUsable, Usable
<1>4. M \in SUBSET (1 .. l) /\ LastAt(M, l, F, d, v)
  BY <1>1
<1> HIDE DEF M, F, last
<1>5. v = IF M = {} THEN d ELSE F[Max(M)]
  <2>1. M \in SUBSET Int /\ l \in Int
    BY <1>4
  <2> DEFINE w == IF M = {} THEN d ELSE F[Max(M)]
  <2>2. LastAt(M, l, F, d, w)
    BY <1>4, LastOfAll
  <2> HIDE DEF w
  <2>3. v = w
    BY <1>4, <2>1, <2>2, LastUnique
  <2> QED
    BY <2>3 DEF w
<1>6. M # {} => Max(M) \in M
  <2>1. M \in SUBSET Int /\ l \in Int /\ \A y \in M : y <= l
    BY <1>4
  <2> QED
    BY <2>1, MaxOf
<1>7. v = IF last # Empty THEN last ELSE d
  BY <1>2, <1>3, <1>5, <1>6
<1> QED
  BY <1>7 DEF last

\* After all calls, for any tag.
LEMMA SeenEnd ==
  ASSUME NEW list \in Seq(CallSet), \A i \in 1 .. Len(list) : IsPlain(list[i]), Submits(list),
         NEW ctx, NEW t \in Own, NEW d, NEW v, Seen(list, Len(list), ctx, t, d, v)
  PROVE  v = IF InCalls(list, t) # Empty THEN InCalls(list, t) ELSE d
<1>1. "trkn" \in Paired /\ "disk" \in Paired
  BY DEF Paired
<1>2. CASE t = "trkn"
  <2>1. PairSeen(list, Len(list), "trkn", "total tracks", ctx["track"], ctx["track_total"], d, v)
    BY <1>2 DEF Seen
  <2>2. InCalls(list, t) = PairIn(list, "trkn", "total tracks")
    BY <1>2 DEF InCalls
  <2> QED
    BY <1>1, <2>1, <2>2, PairEnd
<1>3. CASE t = "disk"
  <2>1. PairSeen(list, Len(list), "disk", "total discs", ctx["disc"], ctx["disc_total"], d, v)
    BY <1>3 DEF Seen
  <2>2. InCalls(list, t) = PairIn(list, "disk", "total discs")
    BY <1>3 DEF InCalls
  <2> QED
    BY <1>1, <2>1, <2>2, PairEnd
<1>4. CASE t \notin {"trkn", "disk"}
  <2> DEFINE meant == Naming(list, {t})
  <2>1. InCalls(list, t) = LastUsable(list, meant, t, Blank)
    BY <1>4 DEF InCalls
  <2>2. LastAt(Usable(list, meant, t, Blank), Len(list), ContentAt(list, t, Blank), d, v)
    BY <1>4 DEF Seen, OtherSeen
  <2>3. Usable(list, meant, t, Blank) \in SUBSET (1 .. Len(list))
    BY PlacesInList
  <2> HIDE DEF meant
  <2> QED
    BY <2>1, <2>2, <2>3, UsableEnd
<1> QED
  BY <1>2, <1>3, <1>4

\* To submit the pairs once more adds nothing to what a list has.
LEMMA FlushAddsNothing ==
  ASSUME NEW json \in Seq(CallSet), NEW t
  PROVE  InCalls(Append(json, FlushCall), t) = InCalls(json, t)
<1> DEFINE list == Append(json, FlushCall)
<1>1. PICK l \in Nat : l = Len(json)
  OBVIOUS
<1>2. FlushCall.row = 0
  BY DEF FlushCall, Call
<1>3. /\ Len(list) = l + 1 /\ list[l + 1].row = 0
      /\ \A i \in 1 .. l : list[i] = json[i]
  BY <1>1, <1>2
<1> HIDE DEF list
<1>4. \A names : /\ Naming(list, names) = Naming(json, names)
                 /\ Naming(json, names) \in SUBSET (1 .. l)
  <2> SUFFICES ASSUME NEW names
               PROVE  /\ Naming(list, names) = Naming(json, names)
                      /\ Naming(json, names) \in SUBSET (1 .. l)
    OBVIOUS
  <2>1. \A i \in 1 .. (l + 1) : i = l + 1 \/ i \in 1 .. l
    OBVIOUS
  <2>2. \A i : i \in 1 .. l => i \in 1 .. (l + 1)
    OBVIOUS
  <2> QED
    BY <1>1, <1>3, <2>1, <2>2 DEF Naming
<1>5. \A names : \A i \in Naming(json, names) : list[i] = json[i]
  BY <1>3, <1>4
<1>6. \A tag, total : PairIn(list, tag, total) = PairIn(json, tag, total)
  <2> SUFFICES ASSUME NEW tag, NEW total PROVE PairIn(list, tag, total) = PairIn(json, tag, total)
    OBVIOUS
  <2> DEFINE M == NumbersIn(json, tag)
             N == TotalsIn(json, tag, total)
  <2>1. NumbersIn(list, tag) = M
    BY <1>4, <1>5 DEF NumbersIn
  <2>2. TotalsIn(list, tag, total) = N
    BY <1>4, <1>5 DEF TotalsIn
  <2>3. M \in SUBSET (1 .. l) /\ N \in SUBSET (1 .. l)
    BY <1>1, PlacesInList
  <2> HIDE DEF M, N
  <2>4. (M # {} => list[Max(M)] = json[Max(M)]) /\ (N # {} => list[Max(N)] = json[Max(N)])
    <3>1. /\ M \in SUBSET Int /\ N \in SUBSET Int /\ l \in Int
          /\ \A y \in M : y <= l
          /\ \A y \in N : y <= l
      BY <2>3
    <3>2. (M # {} => Max(M) \in M) /\ (N # {} => Max(N) \in N)
      BY <3>1, MaxOf
    <3> QED
      BY <1>3, <2>3, <3>2
  <2> QED
    BY <2>1, <2>2, <2>4 DEF PairIn, M, N
<1>7. LastUsable(list, Naming(list, {t}), t, Blank) = LastUsable(json, Naming(json, {t}), t, Blank)
  <2> DEFINE M == {i \in Naming(json, {t}) : Content(Entry(t, Blank, json[i].value)) # Empty}
  <2>1. {i \in Naming(list, {t}) : Content(Entry(t, Blank, list[i].value)) # Empty} = M
    BY <1>4, <1>5
  <2>2. M # {} => list[Max(M)] = json[Max(M)]
    <3>1. M \in SUBSET (1 .. l)
      BY <1>4
    <3> HIDE DEF M
    <3>2. M \in SUBSET Int /\ l \in Int /\ \A y \in M : y <= l
      BY <3>1
    <3>3. M # {} => Max(M) \in M
      BY <3>2, MaxOf
    <3> QED
      BY <1>3, <3>1, <3>3
  <2> QED
    BY <2>1, <2>2 DEF LastUsable
<1> QED
  BY <1>6, <1>7 DEF InCalls, list

-----------------------------------------------------------------------------
(***************************************************************************)
(* The inductive invariant of a tag t with a name n.                       *)
(***************************************************************************)

\* Calls fill slots of no name, and only these.
Slotted(t, n) == \/ t \in Own /\ n = Blank
                 \/ t = "----" /\ n # Blank

Over(v, d) == IF v # Empty THEN v ELSE d

\* What there is once the source, the JSON file, the options and the program
\* have been written.
FromCalls(calls, t, n) == IF n = Blank THEN InCalls(calls, t) ELSE Empty
FromSource(t, n) == FromCalls(input.source, t, n)
FromJson(t, n) == Over(FromCalls(input.json, t, n), FromSource(t, n))
FromOptions(t, n) == Over(InOptions(t, n), FromJson(t, n))
WithTool(t, n) == IF t = "tool" THEN Content(ToolTag) ELSE FromOptions(t, n)

JsonCalls == IF input.json = <<>> THEN <<>> ELSE Append(input.json, FlushCall)

\* What has been taken of the list that is being worked off.
OptionsMeant(t, n) ==
  {i \in 1 .. Len(input.options) : input.options[i].tag = t /\ input.options[i].name = n}

OptionsTaken(t, n) ==
  LET list == input.options
  IN  LastAt(Usable(list, OptionsMeant(t, n), t, n), Len(list) - Len(todo),
             ContentAt(list, t, n), Empty, Latest(tags, t, n, Empty))

CallsTaken(list, t, n, d, v) ==
  IF n = Blank THEN Seen(list, Len(list) - Len(todo), pairs, t, d, v) ELSE v = d

Collected(t, n) ==
  /\ phase = "options" => OptionsTaken(t, n)
  /\ phase \notin {"options", "crashed"} => Latest(tags, t, n, Empty) = InOptions(t, n)
  /\ phase = "source" => CallsTaken(input.source, t, n, Empty, Latest(source_tags, t, n, Empty))

InSlots(t, n) ==
  /\ phase = "write source" => Outlook(t, n) = FromSource(t, n)
  /\ phase = "json" => CallsTaken(JsonCalls, t, n, FromSource(t, n), Outlook(t, n))
  /\ phase = "write options" => Outlook(t, n) = FromOptions(t, n)
  /\ phase = "tool" => Outlook(t, n) = WithTool(t, n)
  /\ phase \in {"gapless", "done"} => Outlook(t, n) = Promised(t, n)

Followed(t, n) == Collected(t, n) /\ (~last_error => InSlots(t, n))

\* The lists, and what is left of them.
PlainCalls(calls) == \A i \in 1 .. Len(calls) : IsPlain(calls[i])

Lists ==
  /\ input.options \in Seq(OptionSet)
  /\ PlainCalls(input.source) /\ PlainCalls(input.json) /\ Submits(input.source)
  /\ phase = "options" => IsRestOf(todo, input.options) /\ source_tags = <<>>
  /\ phase = "source" => IsRestOf(todo, input.source)
  /\ phase = "json" => IsRestOf(todo, JsonCalls)
  /\ phase \in {"options", "source"} => itmf_table = <<>>

LatestInv == Lists /\ \A tag \in Tags : Followed(tag[1], tag[2])

\* The calls of the JSON file are plain as well, and are submitted.
LEMMA JsonCallsPlain ==
  ASSUME input.json \in Seq(CallSet), PlainCalls(input.json)
  PROVE  /\ JsonCalls \in Seq(CallSet) /\ PlainCalls(JsonCalls) /\ Submits(JsonCalls)
         /\ \A t : InCalls(JsonCalls, t) = InCalls(input.json, t)
<1>1. CASE input.json = <<>>
  <2>1. JsonCalls = input.json
    BY <1>1 DEF JsonCalls
  <2> QED
    BY <1>1, <2>1 DEF Submits
<1>2. CASE input.json # <<>>
  <2> DEFINE json == input.json
             list == Append(json, FlushCall)
  <2>1. JsonCalls = list
    BY <1>2 DEF JsonCalls
  <2>2. FlushCall \in CallSet /\ FlushCall.row = 0
    BY ValueTypes DEF FlushCall, Call, CallSet
  <2>3. /\ list \in Seq(CallSet) /\ Len(list) = Len(json) + 1 /\ Len(json) \in Nat
        /\ list[Len(json) + 1] = FlushCall
        /\ \A i \in 1 .. Len(json) : list[i] = json[i]
    BY <2>2
  <2>4. \A t : InCalls(list, t) = InCalls(json, t)
    BY FlushAddsNothing
  <2> HIDE DEF list
  <2>5. Submits(list)
    BY <2>2, <2>3 DEF Submits
  <2>6. PlainCalls(list)
    <3> SUFFICES ASSUME NEW i \in 1 .. Len(list) PROVE IsPlain(list[i])
      BY DEF PlainCalls
    <3>1. CASE i \in 1 .. Len(json)
      BY <2>3, <3>1 DEF PlainCalls
    <3>2. CASE i = Len(json) + 1
      BY <2>2, <2>3, <3>2 DEF IsPlain
    <3> QED
      BY <2>3, <3>1, <3>2
  <2> QED
    BY <2>1, <2>3, <2>4, <2>5, <2>6
<1> QED
  BY <1>1, <1>2

\* The first of the calls that are left is the next one of its list.
LEMMA CallTaken ==
  ASSUME NEW list \in Seq(CallSet), PlainCalls(list), NEW todo1 \in Seq(CallSet), todo1 # <<>>,
         IsRestOf(todo1, list), NEW ctx \in PairSet, NEW t, NEW n, Slotted(t, n), NEW d, NEW v,
         n = Blank => Seen(list, Len(list) - Len(todo1), ctx, t, d, v),
         n # Blank => v = d
  PROVE  LET call == Head(todo1)
             w == Latest(Added(ctx, call), t, n, v)
         IN  /\ n = Blank =>
                  Seen(list, Len(list) - Len(Tail(todo1)), PairsAfter(ctx, call), t, d, w)
             /\ n # Blank => w = d
<1> DEFINE k == Len(list) - Len(todo1)
           call == Head(todo1)
<1>1. /\ Len(list) - Len(Tail(todo1)) = k + 1 /\ k + 1 \in 1 .. Len(list) /\ call = list[k + 1]
  BY RestTaken
<1>2. k \in Nat
  <2>1. Len(list) \in Nat /\ Len(todo1) \in Nat
    OBVIOUS
  <2> QED
    BY <1>1, <2>1
<1>3. IsPlain(list[k + 1]) /\ call \in CallSet
  BY <1>1 DEF PlainCalls
<1> HIDE DEF k, call
<1>4. CASE n = Blank
  <2>1. t \in Own /\ Seen(list, k, ctx, t, d, v)
    BY <1>4 DEF Slotted, k
  <2>2. Seen(list, k + 1, PairsAfter(ctx, list[k + 1]), t, d,
             Latest(Added(ctx, list[k + 1]), t, Blank, v))
    BY <1>1, <1>2, <1>3, <2>1, SeenStep
  <2> QED
    BY <1>1, <1>4, <2>2 DEF call
<1>5. CASE n # Blank
  <2>1. call.row # 0 => FoundRow(call.row) = call.row
    BY <1>1, <1>3 DEF IsPlain
  <2>2. Latest(Added(ctx, call), t, n, v) = v
    BY <1>3, <1>5, <2>1, AddedLatest
  <2> QED
    BY <1>5, <2>2 DEF call
<1> QED
  BY <1>4, <1>5

\* An empty value is never stored.
LEMMA EmptyContent ==
  ASSUME NEW t, NEW n
  PROVE  Content(Entry(t, n, Empty)) = Empty
<1>1. Empty.nums = <<>> /\ Empty.text = Blank /\ Text(Blank) = Empty
  BY DEF Empty, Text
<1>2. /\ Entry(t, n, Empty).tag = t /\ Entry(t, n, Empty).name = n
      /\ Entry(t, n, Empty).value = Empty
  BY DEF Entry
<1> QED
  BY <1>1, <1>2 DEF Content

\* Nothing has been taken of any list.
LEMMA InitLatest ==
  ASSUME PlainLists, Init
  PROVE  LatestInv
<1>1. /\ input.options \in Seq(OptionSet) /\ input.source \in SourceLists
      /\ input.json \in JsonLists /\ todo = input.options /\ phase = "options"
      /\ tags = <<>> /\ source_tags = <<>> /\ itmf_table = <<>>
  BY InputsAssumption DEF Init
<1>2. IsRestOf(input.options, input.options) /\ Len(input.options) - Len(input.options) = 0
  BY <1>1, AllIsRest
<1>3. Lists
  <2>1. PlainCalls(input.source) /\ PlainCalls(input.json)
    BY <1>1 DEF PlainLists, PlainCalls
  <2>2. Submits(input.source)
    BY <1>1 DEF PlainLists, Submits, Last
  <2> QED
    BY <1>1, <1>2, <2>1, <2>2 DEF Lists
<1>4. \A t, n : Followed(t, n)
  <2> SUFFICES ASSUME NEW t, NEW n PROVE Followed(t, n)
    OBVIOUS
  <2>1. Latest(tags, t, n, Empty) = Empty
    <3> DEFINE z == Empty
    <3> HIDE DEF z
    <3>1. \A e : Latest(<<>>, t, n, z) = z /\ e = e
      BY LatestOne
    <3> QED
      BY <1>1, <3>1 DEF z
  <2>2. OptionsTaken(t, n)
    <3> DEFINE M == Usable(input.options, OptionsMeant(t, n), t, n)
               F == ContentAt(input.options, t, n)
    <3>1. M \in SUBSET (1 .. Len(input.options))
      BY DEF Usable, OptionsMeant
    <3> HIDE DEF M, F
    <3>2. LastAt(M, 0, F, Empty, Empty)
      BY <3>1, LastAtFirst
    <3> QED
      BY <1>1, <1>2, <2>1, <3>2 DEF OptionsTaken, M, F
  <2> QED
    BY <1>1, <2>2 DEF Followed, Collected, InSlots
<1> QED
  BY <1>3, <1>4 DEF LatestInv

\* An option becomes an entry, unless it has no value.
LEMMA AddOptionLatest ==
  ASSUME TagInv, Lists, AddOption, NEW t, NEW n, Followed(t, n)
  PROVE  Followed(t, n)'
<1> DEFINE o == Head(todo)
           list == input.options
           k == Len(list) - Len(todo)
           e == Entry(o.tag, o.name, o.value)
           M == Usable(list, OptionsMeant(t, n), t, n)
           F == ContentAt(list, t, n)
           v == Latest(tags, t, n, Empty)
           w == Latest(tags', t, n, Empty)
<1>1. /\ todo \in Seq(OptionSet) /\ todo # <<>> /\ tags \in Seq(Entries)
      /\ list \in Seq(OptionSet) /\ phase = "options" /\ IsRestOf(todo, list)
      /\ todo' = Tail(todo) /\ UNCHANGED <<input, source_tags, queue, itmf_table, last_error>>
      /\ phase' \in {"options", "crashed"}
  BY DEF TagInv, Types, AddOption, Lists
<1>2. CASE phase' = "crashed"
  BY <1>2 DEF Followed, Collected, InSlots
<1>3. CASE phase' = "options"
  <2>1. /\ Len(list) - Len(todo') = k + 1
        /\ k + 1 \in 1 .. Len(list) /\ o = list[k + 1] /\ k \in Int
    <3>1. Len(list) \in Nat /\ Len(todo) \in Nat
      BY <1>1
    <3> QED
      BY <1>1, <3>1, RestTaken
  <2>2. o \in OptionSet
    BY <1>1
  <2>3. /\ e \in Entries /\ e.tag = o.tag /\ e.name = o.name /\ e.value = o.value
    BY <2>2, EntryType DEF OptionSet, Entry
  <2>4. M \in SUBSET Int
    <3>1. M \in SUBSET (1 .. Len(list))
      BY DEF Usable, OptionsMeant
    <3> HIDE DEF M
    <3> QED
      BY <3>1
  <2>5. k + 1 \in M <=> o.tag = t /\ o.name = n /\ Content(Entry(t, n, o.value)) # Empty
    BY <2>1 DEF Usable, OptionsMeant
  <2>6. F[k + 1] = Content(Entry(t, n, o.value))
    BY <2>1 DEF ContentAt
  <2>7. LastAt(M, k, F, Empty, v)
    BY <1>1 DEF Followed, Collected, OptionsTaken
  <2>8. w = IF k + 1 \in M THEN F[k + 1] ELSE v
    <3>1. CASE o.from = "argument" /\ o.value = Empty
      <4>1. tags' = tags
        BY <3>1 DEF AddOption
      <4>2. Content(Entry(t, n, o.value)) = Empty
        BY <3>1, EmptyContent
      <4> QED
        BY <2>5, <4>1, <4>2
    <3>2. CASE ~ (o.from = "argument" /\ o.value = Empty)
      <4>1. tags' = Append(tags, e)
        BY <1>3, <3>2 DEF AddOption
      <4> HIDE DEF e
      <4>2. tags' = tags \o <<e>> /\ <<e>> \in Seq(Entries)
        BY <1>1, <2>3, <4>1
      <4>3. Latest(tags \o <<e>>, t, n, Empty) = Latest(<<e>>, t, n, v)
        <5> HIDE DEF v
        <5> DEFINE z == Empty
        <5> HIDE DEF z
        <5>1. Latest(tags \o <<e>>, t, n, z) = Latest(<<e>>, t, n, Latest(tags, t, n, z))
          <6> DEFINE q1 == tags
                     q2 == <<e>>
          <6>1. q1 \in Seq(Entries) /\ q2 \in Seq(Entries)
            BY <1>1, <4>2
          <6> HIDE DEF q1, q2
          <6>2. Latest(q1 \o q2, t, n, z) = Latest(q2, t, n, Latest(q1, t, n, z))
            BY <6>1, LatestBoth
          <6> QED
            BY <6>2 DEF q1, q2
        <5> QED
          BY <5>1 DEF z, v
      <4>4. Latest(<<e>>, t, n, v) =
              IF e.tag = t /\ e.name = n /\ Content(e) # Empty THEN Content(e) ELSE v
        <5> HIDE DEF v
        <5> QED
          BY LatestOne
      <4>5. e.tag = t /\ e.name = n => Content(e) = Content(Entry(t, n, o.value))
        BY <2>3 DEF e
      <4> HIDE DEF M, F, v, o
      <4> QED
        BY <2>3, <2>5, <2>6, <4>2, <4>3, <4>4, <4>5 DEF v
    <3> QED
      BY <3>1, <3>2
  <2> HIDE DEF M, F, v, w, k, list
  <2>9. LastAt(M, k + 1, F, Empty, w)
    BY <2>1, <2>4, <2>7, <2>8, LastStep
  <2>10. OptionsTaken(t, n)'
    <3>1. list' = list /\ OptionsMeant(t, n)' = OptionsMeant(t, n)
      BY <1>1 DEF list, OptionsMeant
    <3> QED
      BY <1>1, <2>1, <2>9, <3>1 DEF OptionsTaken, list, M, F, w
  <2> QED
    BY <1>3, <2>10 DEF Followed, Collected, InSlots
<1> QED
  BY <1>1, <1>2, <1>3

\* A call of the source adds to the entries of the source.
LEMMA SourceCallLatest ==
  ASSUME TagInv, Lists, SourceCall, NEW t, NEW n, Slotted(t, n), Followed(t, n)
  PROVE  Followed(t, n)'
<1> DEFINE list == input.source
           call == Head(todo)
           v == Latest(source_tags, t, n, Empty)
           w == Latest(source_tags', t, n, Empty)
<1>1. /\ todo \in Seq(CallSet) /\ todo # <<>> /\ list \in Seq(CallSet) /\ IsRestOf(todo, list)
      /\ PlainCalls(list) /\ phase = "source" /\ pairs \in PairSet
      /\ source_tags \in Seq(Entries) /\ source_tags' = source_tags \o Added(pairs, call)
      /\ todo' = Tail(todo) /\ pairs' = PairsAfter(pairs, call)
      /\ UNCHANGED <<input, phase, tags, queue, itmf_table, last_error>>
  BY DEF TagInv, Types, SourceCall, Lists
<1>2. call \in CallSet
  BY <1>1
<1>3. Added(pairs, call) \in Seq(Entries)
  BY <1>1, <1>2, CallTypes
<1>4. w = Latest(Added(pairs, call), t, n, v)
  <2> DEFINE z == Empty
             q1 == source_tags
             q2 == Added(pairs, call)
  <2>1. q1 \in Seq(Entries) /\ q2 \in Seq(Entries)
    BY <1>1, <1>3
  <2> HIDE DEF z, q1, q2
  <2>2. Latest(q1 \o q2, t, n, z) = Latest(q2, t, n, Latest(q1, t, n, z))
    BY <2>1, LatestBoth
  <2> QED
    BY <1>1, <2>2 DEF z, q1, q2
<1>5. CallsTaken(list, t, n, Empty, v)
  BY <1>1 DEF Followed, Collected
<1>6. /\ n = Blank => Seen(list, Len(list) - Len(todo), pairs, t, Empty, v)
      /\ n # Blank => v = Empty
  BY <1>5 DEF CallsTaken
<1> DEFINE z == Empty
<1> HIDE DEF v, w, list, z, call
<1>7. /\ n = Blank => Seen(list, Len(list) - Len(Tail(todo)), PairsAfter(pairs, call), t, z,
                           Latest(Added(pairs, call), t, n, v))
      /\ n # Blank => Latest(Added(pairs, call), t, n, v) = z
  <2>1. /\ n = Blank => Seen(list, Len(list) - Len(todo), pairs, t, z, v)
        /\ n # Blank => v = z
    BY <1>6 DEF z
  <2>2. /\ list \in Seq(CallSet) /\ PlainCalls(list) /\ todo \in Seq(CallSet) /\ todo # <<>>
        /\ IsRestOf(todo, list) /\ pairs \in PairSet
    BY <1>1
  <2> QED
    BY <2>1, <2>2, CallTaken DEF call
<1>8. CallsTaken(input.source, t, n, Empty, Latest(source_tags, t, n, Empty))'
  BY <1>1, <1>4, <1>7 DEF CallsTaken, list, v, w, z
<1>9. (Latest(tags, t, n, Empty) = InOptions(t, n))'
  <2>1. Latest(tags, t, n, Empty) = InOptions(t, n)
    BY <1>1 DEF Followed, Collected
  <2> QED
    BY <1>1, <2>1 DEF InOptions
<1> QED
  BY <1>1, <1>8, <1>9 DEF Followed, Collected, InSlots

\* What a member of the JSON file adds will be in the slots.
LEMMA JsonMemberLatest ==
  ASSUME TagInv, Lists, JsonMember, NEW t, NEW n, Slotted(t, n), Followed(t, n)
  PROVE  Followed(t, n)'
<1> DEFINE list == JsonCalls
           call == Head(todo)
           d == FromSource(t, n)
           v == Outlook(t, n)
           w == Latest(Added(pairs, call), t, n, v)
<1>1. /\ todo \in Seq(CallSet) /\ todo # <<>> /\ IsRestOf(todo, list)
      /\ input.json \in Seq(CallSet) /\ PlainCalls(input.json)
      /\ phase = "json" /\ pairs \in PairSet /\ queue = <<>>
      /\ queue' = Added(pairs, call)
      /\ todo' = Tail(todo) /\ pairs' = PairsAfter(pairs, call)
      /\ UNCHANGED <<input, phase, source_tags, tags, itmf_table, last_error>>
  BY DEF TagInv, Types, JsonMember, Lists
<1>2. list \in Seq(CallSet) /\ PlainCalls(list)
  BY <1>1, JsonCallsPlain
<1>3. v = StoredIn(itmf_table, t, n)
  <2> DEFINE z == StoredIn(itmf_table, t, n)
  <2> HIDE DEF z
  <2>1. \A e : Latest(<<>>, t, n, z) = z /\ e = e
    BY LatestOne
  <2> QED
    BY <1>1, <2>1 DEF Outlook, z
<1>4. Outlook(t, n)' = w
  BY <1>1, <1>3 DEF Outlook
<1>5. ~last_error => CallsTaken(list, t, n, d, v)
  BY <1>1 DEF Followed, InSlots
<1>6. list' = list /\ d' = d
  BY <1>1 DEF JsonCalls, FromSource
<1> HIDE DEF v, list, d, call
<1>7. ~last_error => (CallsTaken(JsonCalls, t, n, FromSource(t, n), Outlook(t, n)))'
  <2> SUFFICES ASSUME ~last_error
               PROVE  (CallsTaken(JsonCalls, t, n, FromSource(t, n), Outlook(t, n)))'
    OBVIOUS
  <2>1. /\ n = Blank => Seen(list, Len(list) - Len(todo), pairs, t, d, v)
        /\ n # Blank => v = d
    BY <1>5 DEF CallsTaken
  <2>2. /\ n = Blank => Seen(list, Len(list) - Len(Tail(todo)), PairsAfter(pairs, call), t, d,
                             Latest(Added(pairs, call), t, n, v))
        /\ n # Blank => Latest(Added(pairs, call), t, n, v) = d
    BY <1>1, <1>2, <2>1, CallTaken DEF call
  <2> QED
    BY <1>1, <1>4, <1>6, <2>2 DEF CallsTaken, list, d
<1>8. (Latest(tags, t, n, Empty) = InOptions(t, n))'
  <2>1. Latest(tags, t, n, Empty) = InOptions(t, n)
    BY <1>1 DEF Followed, Collected
  <2> QED
    BY <1>1, <2>1 DEF InOptions
<1> QED
  BY <1>1, <1>7, <1>8 DEF Followed, Collected, InSlots

\* Writing an entry fulfils what was expected of it.
LEMMA WriteEntryLatest ==
  ASSUME TagInv, WriteEntry, NEW t, NEW n, t # "covr", Followed(t, n)
  PROVE  Followed(t, n)'
<1>1. /\ UNCHANGED <<input, phase, todo, pairs, source_tags, tags>>
      /\ phase \notin {"options", "source"}
  BY DEF WriteEntry, TagInv, Noted
<1>2. ~last_error' => ~last_error /\ Outlook(t, n)' = Outlook(t, n)
  BY WriteKeepsOutlook
<1>3. /\ InOptions(t, n)' = InOptions(t, n) /\ FromSource(t, n)' = FromSource(t, n)
      /\ FromOptions(t, n)' = FromOptions(t, n) /\ WithTool(t, n)' = WithTool(t, n)
      /\ Promised(t, n)' = Promised(t, n) /\ JsonCalls' = JsonCalls
  BY <1>1 DEF InOptions, FromSource, FromJson, FromOptions, WithTool, Promised, JsonCalls
<1>4. Collected(t, n)'
  BY <1>1, <1>3 DEF Followed, Collected
<1>5. ASSUME ~last_error' PROVE InSlots(t, n)'
  <2>1. InSlots(t, n) /\ Outlook(t, n)' = Outlook(t, n)
    BY <1>2, <1>5 DEF Followed
  <2>2. phase = "json" =>
          (CallsTaken(JsonCalls, t, n, FromSource(t, n), Outlook(t, n)))'
    <3> SUFFICES ASSUME phase = "json"
                 PROVE  (CallsTaken(JsonCalls, t, n, FromSource(t, n), Outlook(t, n)))'
      OBVIOUS
    <3>1. CallsTaken(JsonCalls, t, n, FromSource(t, n), Outlook(t, n))
      BY <2>1 DEF InSlots
    <3> QED
      BY <1>1, <1>3, <2>1, <3>1 DEF CallsTaken
  <2> QED
    BY <1>1, <1>3, <2>1, <2>2 DEF InSlots
<1> QED
  BY <1>4, <1>5 DEF Followed

\* When all options are entries, the last usable one of each tag is known.
LEMMA OptionsEnd ==
  ASSUME Lists, todo = <<>>, NEW t, NEW n, OptionsTaken(t, n)
  PROVE  Latest(tags, t, n, Empty) = InOptions(t, n)
<1> DEFINE list == input.options
           meant == OptionsMeant(t, n)
           v == Latest(tags, t, n, Empty)
           z == Empty
<1>1. list \in Seq(OptionSet) /\ Len(list) - Len(todo) = Len(list)
  <2>1. list \in Seq(OptionSet)
    BY DEF Lists
  <2>2. Len(list) \in Nat /\ Len(todo) = 0
    BY <2>1
  <2> QED
    BY <2>1, <2>2
<1>2. Usable(list, meant, t, n) \in SUBSET (1 .. Len(list))
  BY DEF Usable, OptionsMeant
<1>3. LastAt(Usable(list, meant, t, n), Len(list), ContentAt(list, t, n), Empty, v)
  BY <1>1 DEF OptionsTaken
<1>4. InOptions(t, n) = LastUsable(list, meant, t, n)
  BY DEF InOptions, OptionsMeant
<1> HIDE DEF list, meant, v, z
<1>5. LastAt(Usable(list, meant, t, n), Len(list), ContentAt(list, t, n), z, v)
  BY <1>3 DEF z
<1>6. v = IF LastUsable(list, meant, t, n) # Empty THEN LastUsable(list, meant, t, n) ELSE z
  BY <1>1, <1>2, <1>5, UsableEnd
<1> QED
  BY <1>4, <1>6 DEF v, z

\* When all calls have been made, there is what the list has.
LEMMA CallsEnd ==
  ASSUME NEW list \in Seq(CallSet), PlainCalls(list), Submits(list), todo = <<>>,
         NEW t, NEW n, Slotted(t, n), NEW d, NEW v, CallsTaken(list, t, n, d, v)
  PROVE  v = Over(FromCalls(list, t, n), d)
<1>1. Len(list) - Len(todo) = Len(list)
  <2>1. Len(list) \in Nat /\ Len(todo) = 0
    OBVIOUS
  <2> QED
    BY <2>1
<1>2. CASE n = Blank
  <2>1. Seen(list, Len(list), pairs, t, d, v) /\ t \in Own
    BY <1>1, <1>2 DEF CallsTaken, Slotted
  <2>2. v = IF InCalls(list, t) # Empty THEN InCalls(list, t) ELSE d
    BY <2>1, SeenEnd DEF PlainCalls
  <2> QED
    BY <1>2, <2>2 DEF Over, FromCalls
<1>3. CASE n # Blank
  BY <1>3 DEF CallsTaken, Over, FromCalls
<1> QED
  BY <1>2, <1>3

\* With nothing waiting, the slots hold what was expected; what is lined up
\* then goes over it.
LEMMA OutlookOfQueue ==
  ASSUME queue = <<>>, itmf_table' = itmf_table, NEW t, NEW n
  PROVE  /\ Outlook(t, n) = StoredIn(itmf_table, t, n)
         /\ Outlook(t, n)' = Latest(queue', t, n, Outlook(t, n))
<1> DEFINE z == StoredIn(itmf_table, t, n)
<1> HIDE DEF z
<1>1. \A e : Latest(<<>>, t, n, z) = z /\ e = e
  BY LatestOne
<1>2. Outlook(t, n) = z
  BY <1>1 DEF Outlook, z
<1>3. Outlook(t, n)' = Latest(queue', t, n, z)
  BY DEF Outlook, z
<1> QED
  BY <1>2, <1>3 DEF z

\* What Promised() says, taken source by source.
LEMMA PromisedParts ==
  ASSUME NEW t, NEW n, Slotted(t, n)
  PROVE  Promised(t, n) = IF input.gapless /\ t = "----" /\ n = "iTunSMPB"
                            THEN Content(GaplessTag) ELSE WithTool(t, n)
<1>1. CASE n = Blank
  <2>1. t # "----"
    BY <1>1 DEF Slotted, Own, Paired, Single
  <2> QED
    BY <1>1, <2>1 DEF Promised, WithTool, FromOptions, FromJson, FromSource, FromCalls, Over
<1>2. CASE n # Blank
  <2>1. t = "----"
    BY <1>2 DEF Slotted
  <2> QED
    BY <1>2, <2>1 DEF Promised, WithTool, FromOptions, FromJson, FromSource, FromCalls, Over
<1> QED
  BY <1>1, <1>2

\* The program's own tags.
LEMMA OwnTags ==
  /\ ToolTag.tag = "tool" /\ ToolTag.name = Blank /\ Content(ToolTag) # Empty
  /\ GaplessTag.tag = "----" /\ GaplessTag.name = "iTunSMPB" /\ Content(GaplessTag) # Empty
<1>1. /\ ToolTag.tag = "tool" /\ ToolTag.name = Blank /\ ToolTag.value.text = "fdkaac"
      /\ GaplessTag.tag = "----" /\ GaplessTag.name = "iTunSMPB"
      /\ GaplessTag.value.text = "gapless"
  BY DEF ToolTag, GaplessTag, Entry, Text
<1>2. Text("fdkaac") # Empty /\ Text("gapless") # Empty /\ "iTunSMPB" # Blank
  <2>1. /\ Text("fdkaac").text = "fdkaac" /\ Text("gapless").text = "gapless"
        /\ Empty.text = Blank
    BY DEF Text, Empty
  <2> QED
    BY <2>1 DEF Blank
<1> QED
  BY <1>1, <1>2 DEF Content

\* A phase that has nothing left to do hands over what the next one expects.
LEMMA NextPhaseLatest ==
  ASSUME TagInv, Lists, NextPhase, NEW t, NEW n, Slotted(t, n), Followed(t, n)
  PROVE  Followed(t, n)'
<1> DEFINE stored == StoredIn(itmf_table, t, n)
<1>1. /\ phase \in Phases \ {"done", "failed", "crashed"} /\ phase' = Successor(phase)
      /\ todo = <<>> /\ queue = <<>> /\ pairs' = NoPairs
      /\ UNCHANGED <<input, source_tags, tags, itmf_table, last_error>>
      /\ input.source \in Seq(CallSet) /\ input.json \in Seq(CallSet)
      /\ tags \in Seq(Entries)
  BY DEF NextPhase, TagInv, Types, Stopped
<1>2. /\ Outlook(t, n) = stored
      /\ Outlook(t, n)' = Latest(queue', t, n, Outlook(t, n))
  BY <1>1, OutlookOfQueue
<1>3. /\ InOptions(t, n)' = InOptions(t, n) /\ FromSource(t, n)' = FromSource(t, n)
      /\ FromOptions(t, n)' = FromOptions(t, n) /\ WithTool(t, n)' = WithTool(t, n)
      /\ Promised(t, n)' = Promised(t, n) /\ JsonCalls' = JsonCalls
      /\ Latest(tags, t, n, Empty)' = Latest(tags, t, n, Empty)
      /\ Latest(source_tags, t, n, Empty)' = Latest(source_tags, t, n, Empty)
  BY <1>1 DEF InOptions, FromSource, FromJson, FromOptions, WithTool, Promised, JsonCalls
<1>4. queue' = <<>> => Outlook(t, n)' = Outlook(t, n)
  <2> DEFINE z == Outlook(t, n)
  <2> HIDE DEF z
  <2>1. \A e : Latest(<<>>, t, n, z) = z /\ e = e
    BY LatestOne
  <2> QED
    BY <1>2, <2>1 DEF z
<1>5. CASE phase = "options"
  <2>1. phase' = "source" /\ todo' = input.source
    BY <1>1, <1>5 DEF Successor, NextPhase
  <2>2. OptionsTaken(t, n)
    BY <1>5 DEF Followed, Collected
  <2>3. Latest(tags, t, n, Empty) = InOptions(t, n)
    BY <1>1, <2>2, OptionsEnd
  <2>4. Latest(source_tags, t, n, Empty) = Empty
    <3> DEFINE z == Empty
    <3> HIDE DEF z
    <3>1. \A e : Latest(<<>>, t, n, z) = z /\ e = e
      BY LatestOne
    <3>2. source_tags = <<>>
      BY <1>5 DEF Lists
    <3> QED
      BY <3>1, <3>2 DEF z
  <2>5. CallsTaken(input.source, t, n, Empty, Latest(source_tags, t, n, Empty))'
    <3> DEFINE list == input.source
               z == Empty
    <3> HIDE DEF list, z
    <3>1. Seen(list, 0, NoPairs, t, z, z)
      BY SeenStart
    <3>2. Len(list) - Len(list) = 0
      BY <1>1, AllIsRest DEF list
    <3>3. /\ todo' = list /\ pairs' = NoPairs /\ input.source' = list
          /\ Latest(source_tags, t, n, Empty)' = z
      BY <1>1, <1>3, <2>1, <2>4 DEF list, z
    <3>4. n = Blank => Seen(list, Len(list) - Len(todo'), pairs', t, z, z)
      BY <3>1, <3>2, <3>3
    <3> QED
      BY <3>3, <3>4 DEF CallsTaken, z
  <2> QED
    BY <1>3, <2>1, <2>3, <2>5 DEF Followed, Collected, InSlots
<1>6. phase # "options" =>
        (phase' \notin {"options", "source", "crashed"} => Collected(t, n)')
  <2> SUFFICES ASSUME phase # "options", phase' \notin {"options", "source", "crashed"}
               PROVE  Collected(t, n)'
    OBVIOUS
  <2>1. Latest(tags, t, n, Empty) = InOptions(t, n)
    BY <1>1 DEF Followed, Collected
  <2> QED
    BY <1>3, <2>1 DEF Collected
<1>7. CASE phase = "source"
  <2>1. phase' = "write source" /\ queue' = source_tags
    BY <1>1, <1>7 DEF Successor, NextPhase
  <2>2. CallsTaken(input.source, t, n, Empty, Latest(source_tags, t, n, Empty))
    BY <1>7 DEF Followed, Collected
  <2>3. Latest(source_tags, t, n, Empty) = FromSource(t, n)
    <3>1. PlainCalls(input.source) /\ Submits(input.source)
      BY DEF Lists
    <3>2. Latest(source_tags, t, n, Empty) = Over(FromCalls(input.source, t, n), Empty)
      <4> DEFINE v == Latest(source_tags, t, n, Empty)
                 z == Empty
                 list == input.source
      <4>1. /\ CallsTaken(list, t, n, z, v) /\ list \in Seq(CallSet)
            /\ PlainCalls(list) /\ Submits(list)
        BY <1>1, <2>2, <3>1
      <4> HIDE DEF v, z, list
      <4>2. v = Over(FromCalls(list, t, n), z)
        BY <1>1, <4>1, CallsEnd
      <4> QED
        BY <4>2 DEF v, z, list
    <3> QED
      BY <3>2 DEF Over, FromSource
  <2>4. stored = Empty
    <3>1. itmf_table = <<>>
      BY <1>7 DEF Lists
    <3>2. \A i \in 1 .. Len(itmf_table) : ~ (itmf_table[i].tag = t /\ itmf_table[i].name = n)
      BY <3>1
    <3> QED
      BY <3>2, StoredNowhere
  <2>5. Outlook(t, n)' = FromSource(t, n)
    BY <1>2, <2>1, <2>3, <2>4
  <2> QED
    BY <1>3, <1>6, <1>7, <2>1, <2>5 DEF Followed, InSlots
<1>8. CASE phase = "write source"
  <2>1. phase' = "json" /\ todo' = JsonCalls /\ queue' = <<>>
    BY <1>1, <1>8 DEF Successor, NextPhase, JsonCalls
  <2>2. ~last_error =>
          CallsTaken(JsonCalls, t, n, FromSource(t, n), Outlook(t, n))'
    <3> SUFFICES ASSUME ~last_error
                 PROVE  CallsTaken(JsonCalls, t, n, FromSource(t, n), Outlook(t, n))'
      OBVIOUS
    <3> DEFINE list == JsonCalls
               z == FromSource(t, n)
    <3>1. list \in Seq(CallSet)
      BY <1>1, JsonCallsPlain DEF Lists
    <3>2. Outlook(t, n)' = z
      BY <1>4, <1>8, <2>1 DEF Followed, InSlots
    <3>3. todo' = list /\ pairs' = NoPairs /\ list' = list /\ z' = z
      BY <1>1, <1>3, <2>1
    <3> HIDE DEF list, z
    <3>4. Seen(list, 0, NoPairs, t, z, z) /\ Len(list) - Len(list) = 0
      BY <3>1, SeenStart, AllIsRest
    <3>5. n = Blank => Seen(list, Len(list) - Len(todo'), pairs', t, z, z)
      BY <3>3, <3>4
    <3> QED
      BY <3>2, <3>3, <3>5 DEF CallsTaken, list, z
  <2> QED
    BY <1>1, <1>6, <1>8, <2>1, <2>2 DEF Followed, InSlots
<1>9. CASE phase = "json"
  <2>1. phase' = "write options" /\ queue' = tags
    BY <1>1, <1>9 DEF Successor, NextPhase
  <2>2. ~last_error => Outlook(t, n)' = FromOptions(t, n)
    <3> SUFFICES ASSUME ~last_error PROVE Outlook(t, n)' = FromOptions(t, n)
      OBVIOUS
    <3> DEFINE list == JsonCalls
               d == FromSource(t, n)
               v == Outlook(t, n)
    <3>1. CallsTaken(list, t, n, d, v)
      BY <1>9 DEF Followed, InSlots
    <3>2. /\ list \in Seq(CallSet) /\ PlainCalls(list) /\ Submits(list)
          /\ InCalls(list, t) = InCalls(input.json, t)
      BY <1>1, JsonCallsPlain DEF Lists
    <3>3. FromCalls(list, t, n) = FromCalls(input.json, t, n)
      BY <3>2 DEF FromCalls
    <3> HIDE DEF list, d, v
    <3>4. v = Over(FromCalls(list, t, n), d)
      BY <1>1, <3>1, <3>2, CallsEnd
    <3>5. v = FromJson(t, n)
      BY <3>3, <3>4 DEF FromJson, d
    <3>6. Latest(tags, t, n, Empty) = InOptions(t, n) /\ Len(tags) \in Nat
      BY <1>1, <1>9 DEF Followed, Collected
    <3>7. Latest(tags, t, n, v) = Over(Latest(tags, t, n, Empty), v)
      BY <3>6, LatestOver DEF Over
    <3> QED
      BY <1>2, <2>1, <3>5, <3>6, <3>7 DEF FromOptions, v
  <2> QED
    BY <1>1, <1>3, <1>6, <1>9, <2>1, <2>2 DEF Followed, InSlots
<1>10. CASE phase = "write options"
  <2>1. phase' = "tool" /\ queue' = <<ToolTag>>
    BY <1>1, <1>10 DEF Successor, NextPhase
  <2>2. ~last_error => Outlook(t, n)' = WithTool(t, n)
    <3> SUFFICES ASSUME ~last_error PROVE Outlook(t, n)' = WithTool(t, n)
      OBVIOUS
    <3>1. Outlook(t, n) = FromOptions(t, n)
      BY <1>10 DEF Followed, InSlots
    <3> DEFINE e == ToolTag
               z == FromOptions(t, n)
    <3>2. e.tag = "tool" /\ e.name = Blank /\ Content(e) # Empty
      BY OwnTags
    <3> HIDE DEF e, z
    <3>3. Latest(<<e>>, t, n, z) =
            IF e.tag = t /\ e.name = n /\ Content(e) # Empty THEN Content(e) ELSE z
      BY LatestOne
    <3>4. t = "tool" => n = Blank
      BY DEF Slotted
    <3>5. Outlook(t, n)' = IF t = "tool" THEN Content(e) ELSE z
      BY <1>2, <2>1, <3>1, <3>2, <3>3, <3>4 DEF e, z
    <3> QED
      BY <3>5 DEF WithTool, e, z
  <2> QED
    BY <1>1, <1>3, <1>6, <1>10, <2>1, <2>2 DEF Followed, InSlots
<1>11. CASE phase = "tool"
  <2>1. phase' = "gapless" /\ queue' = IF input.gapless THEN <<GaplessTag>> ELSE <<>>
    BY <1>1, <1>11 DEF Successor, NextPhase
  <2>2. ~last_error => Outlook(t, n)' = Promised(t, n)
    <3> SUFFICES ASSUME ~last_error PROVE Outlook(t, n)' = Promised(t, n)
      OBVIOUS
    <3>1. Outlook(t, n) = WithTool(t, n)
      BY <1>11 DEF Followed, InSlots
    <3>2. Promised(t, n) = IF input.gapless /\ t = "----" /\ n = "iTunSMPB"
                             THEN Content(GaplessTag) ELSE WithTool(t, n)
      BY PromisedParts
    <3> DEFINE e == GaplessTag
               z == WithTool(t, n)
    <3>3. e.tag = "----" /\ e.name = "iTunSMPB" /\ Content(e) # Empty
      BY OwnTags
    <3> HIDE DEF e, z
    <3>4. Latest(<<e>>, t, n, z) =
            IF e.tag = t /\ e.name = n /\ Content(e) # Empty THEN Content(e) ELSE z
      BY LatestOne
    <3>5. CASE input.gapless
      <4>1. Outlook(t, n)' = Latest(<<e>>, t, n, z)
        BY <1>2, <2>1, <3>1, <3>5 DEF e, z
      <4>2. Promised(t, n) = IF t = "----" /\ n = "iTunSMPB" THEN Content(e) ELSE z
        BY <3>2, <3>5 DEF e, z
      <4> QED
        BY <3>3, <3>4, <4>1, <4>2
    <3>6. CASE ~input.gapless
      BY <1>4, <2>1, <3>1, <3>2, <3>6
    <3> QED
      BY <3>5, <3>6
  <2> QED
    BY <1>1, <1>3, <1>6, <1>11, <2>1, <2>2 DEF Followed, InSlots
<1>12. CASE phase = "gapless"
  <2>1. phase' \in {"done", "failed"} /\ queue' = <<>>
    BY <1>1, <1>12 DEF Successor, NextPhase
  <2>2. ~last_error => Outlook(t, n)' = Promised(t, n)
    BY <1>4, <1>12, <2>1 DEF Followed, InSlots
  <2> QED
    BY <1>1, <1>3, <1>6, <1>12, <2>1, <2>2 DEF Followed, InSlots
<1> QED
  BY <1>1, <1>5, <1>7, <1>8, <1>9, <1>10, <1>11, <1>12 DEF Phases

\* The tags there may be have slots of the two kinds.
LEMMA TagsSlotted ==
  ASSUME NEW tag \in Tags
  PROVE  Slotted(tag[1], tag[2]) /\ tag[1] # "covr"
<1>1. CASE tag \in {<<code, Blank>> : code \in Codes \ {"covr", "----"}}
  <2>1. PICK code \in Codes \ {"covr", "----"} : tag = <<code, Blank>>
    BY <1>1
  <2>2. code \in Own
    BY DEF Codes, Own, Paired, Single
  <2> QED
    BY <2>1, <2>2 DEF Slotted
<1>2. CASE tag \in {<<"----", name>> : name \in {"iTunSMPB", "mood"}}
  <2>1. PICK name \in {"iTunSMPB", "mood"} : tag = <<"----", name>>
    BY <1>2
  <2>2. name # Blank
    BY DEF Blank
  <2> QED
    BY <2>1, <2>2 DEF Slotted
<1> QED
  BY <1>1, <1>2 DEF Tags

\* The lists stay, and what is left of them is their end.
LEMMA ListsStep ==
  ASSUME TagInv, Lists, Step
  PROVE  Lists'
<1>1. UNCHANGED input /\ input.source \in Seq(CallSet) /\ input.json \in Seq(CallSet)
  BY DEF Step, AddOption, SourceCall, JsonMember, WriteEntry, NextPhase, TagInv, Types
<1>2. JsonCalls \in Seq(CallSet) /\ JsonCalls' = JsonCalls
  <2>1. JsonCalls \in Seq(CallSet)
    BY <1>1, JsonCallsPlain DEF Lists
  <2> QED
    BY <1>1, <2>1 DEF JsonCalls
<1>3. /\ input'.options \in Seq(OptionSet) /\ PlainCalls(input'.source)
      /\ PlainCalls(input'.json) /\ Submits(input'.source)
  BY <1>1 DEF Lists
<1>4. CASE AddOption
  <2>1. /\ todo \in Seq(OptionSet) /\ todo # <<>>
        /\ phase = "options" /\ phase' \in {"options", "crashed"}
        /\ todo' = Tail(todo) /\ UNCHANGED <<source_tags, itmf_table>>
    BY <1>4 DEF AddOption, TagInv, Types
  <2>2. IsRestOf(todo, input.options) /\ input.options \in Seq(OptionSet)
    BY <2>1 DEF Lists
  <2>3. IsRestOf(Tail(todo), input.options)
    BY <2>1, <2>2, RestTaken
  <2> QED
    BY <1>1, <1>3, <2>1, <2>3 DEF Lists
<1>5. CASE SourceCall
  <2>1. /\ todo \in Seq(CallSet) /\ todo # <<>> /\ phase = "source" /\ phase' = "source"
        /\ todo' = Tail(todo) /\ UNCHANGED itmf_table
    BY <1>5 DEF SourceCall, TagInv, Types
  <2>2. IsRestOf(todo, input.source)
    BY <2>1 DEF Lists
  <2>3. IsRestOf(Tail(todo), input.source)
    BY <1>1, <2>1, <2>2, RestTaken
  <2> QED
    BY <1>1, <1>3, <2>1, <2>3 DEF Lists
<1>6. CASE JsonMember
  <2>1. /\ todo \in Seq(CallSet) /\ todo # <<>> /\ phase = "json" /\ phase' = "json"
        /\ todo' = Tail(todo)
    BY <1>6 DEF JsonMember, TagInv, Types
  <2>2. IsRestOf(todo, JsonCalls)
    BY <2>1 DEF Lists
  <2>3. IsRestOf(Tail(todo), JsonCalls)
    BY <1>2, <2>1, <2>2, RestTaken
  <2> QED
    BY <1>2, <1>3, <2>1, <2>3 DEF Lists
<1>7. CASE WriteEntry
  <2>1. UNCHANGED <<phase, todo>> /\ phase \notin {"options", "source"}
    BY <1>7 DEF WriteEntry, TagInv, Noted
  <2> QED
    BY <1>2, <1>3, <2>1 DEF Lists
<1>8. CASE NextPhase
  <2>1. /\ phase \in Phases \ {"done", "failed", "crashed"} /\ phase' = Successor(phase)
        /\ UNCHANGED itmf_table
    BY <1>8 DEF NextPhase, TagInv, Types, Stopped
  <2>2. /\ phase' = "source" => phase = "options" /\ todo' = input.source
        /\ phase' = "json" => todo' = JsonCalls
    BY <1>1, <1>8, <2>1 DEF Successor, NextPhase, Phases, JsonCalls
  <2>3. phase' # "options"
    BY <2>1 DEF Successor, Phases
  <2>4. IsRestOf(input.source, input.source) /\ IsRestOf(JsonCalls, JsonCalls)
    BY <1>1, <1>2, AllIsRest
  <2> QED
    BY <1>1, <1>2, <1>3, <2>1, <2>2, <2>3, <2>4 DEF Lists
<1> QED
  BY <1>4, <1>5, <1>6, <1>7, <1>8 DEF Step

\* The invariant is inductive.
LEMMA LatestKept == TagInv /\ LatestInv /\ [Next]_vars => LatestInv'
<1> SUFFICES ASSUME TagInv, LatestInv, [Next]_vars PROVE LatestInv'
  OBVIOUS
<1>1. CASE Step
  <2>1. Lists /\ Lists'
    BY <1>1, ListsStep DEF LatestInv
  <2>2. ASSUME NEW tag \in Tags PROVE Followed(tag[1], tag[2])'
    <3> DEFINE t == tag[1]
               n == tag[2]
    <3>1. Slotted(t, n) /\ t # "covr" /\ Followed(t, n)
      BY TagsSlotted DEF LatestInv
    <3> HIDE DEF t, n
    <3>2. Followed(t, n)'
      <4>1. TagInv /\ Lists
        BY <2>1
      <4>2. CASE AddOption
        BY <3>1, <4>1, <4>2, AddOptionLatest
      <4>3. CASE SourceCall
        BY <3>1, <4>1, <4>3, SourceCallLatest
      <4>4. CASE JsonMember
        BY <3>1, <4>1, <4>4, JsonMemberLatest
      <4>5. CASE WriteEntry
        BY <3>1, <4>1, <4>5, WriteEntryLatest
      <4>6. CASE NextPhase
        BY <3>1, <4>1, <4>6, NextPhaseLatest
      <4> QED
        BY <1>1, <4>2, <4>3, <4>4, <4>5, <4>6 DEF Step
    <3> QED
      BY <3>2 DEF t, n
  <2> QED
    BY <2>1, <2>2 DEF LatestInv
<1>2. CASE UNCHANGED vars
  <2>1. Lists'
    BY <1>2 DEF vars, LatestInv, Lists, JsonCalls
  <2>2. \A tag : Followed(tag[1], tag[2]) => Followed(tag[1], tag[2])'
    <3> SUFFICES ASSUME NEW t, NEW n, Followed(t, n) PROVE Followed(t, n)'
      OBVIOUS
    <3>1. UNCHANGED <<input, phase, todo, pairs, source_tags, tags, queue, itmf_table, last_error>>
      BY <1>2 DEF vars
    <3>2. /\ InOptions(t, n)' = InOptions(t, n) /\ FromSource(t, n)' = FromSource(t, n)
          /\ FromOptions(t, n)' = FromOptions(t, n) /\ WithTool(t, n)' = WithTool(t, n)
          /\ Promised(t, n)' = Promised(t, n) /\ JsonCalls' = JsonCalls
          /\ Outlook(t, n)' = Outlook(t, n)
      BY <3>1 DEF InOptions, FromSource, FromJson, FromOptions, WithTool, Promised, JsonCalls,
         Outlook
    <3>3. OptionsTaken(t, n)' = OptionsTaken(t, n)
      BY <3>1 DEF OptionsTaken, OptionsMeant
    <3>4. /\ Latest(tags, t, n, Empty)' = Latest(tags, t, n, Empty)
          /\ Latest(source_tags, t, n, Empty)' = Latest(source_tags, t, n, Empty)
      BY <3>1
    <3>5. CallsTaken(input.source, t, n, Empty, Latest(source_tags, t, n, Empty))'
            = CallsTaken(input.source, t, n, Empty, Latest(source_tags, t, n, Empty))
      BY <3>1, <3>4 DEF CallsTaken
    <3>6. CallsTaken(JsonCalls, t, n, FromSource(t, n), Outlook(t, n))'
            = CallsTaken(JsonCalls, t, n, FromSource(t, n), Outlook(t, n))
      BY <3>1, <3>2 DEF CallsTaken
    <3>7. Collected(t, n)'
      BY <3>1, <3>2, <3>3, <3>4, <3>5 DEF Followed, Collected
    <3>8. ~last_error' => InSlots(t, n)'
      BY <3>1, <3>2, <3>6 DEF Followed, InSlots
    <3> QED
      BY <3>7, <3>8 DEF Followed
  <2> QED
    BY <2>1, <2>2 DEF LatestInv
<1> QED
  BY <1>1, <1>2 DEF Next, Finished

\* In a finished file every tag has the value of the latest source that has a
\* usable one (LatestSourceWins), for all lists of options, source strings and
\* JSON members whose names are found and whose numbers are not 0, and
\* whichever allocation fails.
THEOREM LatestSource == ASSUME PlainLists PROVE Spec => []LatestSourceWins
<1>1. Init => LatestInv
  BY InitLatest
<1>2. TagInv /\ LatestInv => LatestSourceWins
  <2> SUFFICES ASSUME TagInv, LatestInv, phase = "done", NEW tag \in Tags
               PROVE  Stored(tag[1], tag[2]) = Promised(tag[1], tag[2])
    BY DEF LatestSourceWins
  <2> DEFINE t == tag[1]
             n == tag[2]
  <2>1. Followed(t, n) /\ ~last_error /\ queue = <<>>
    BY DEF LatestInv, TagInv, Noted
  <2> DEFINE z == StoredIn(itmf_table, t, n)
  <2> HIDE DEF z, t, n
  <2>2. \A e : Latest(<<>>, t, n, z) = z /\ e = e
    BY LatestOne
  <2>3. Outlook(t, n) = z
    BY <2>1, <2>2 DEF Outlook, z
  <2>4. Outlook(t, n) = Promised(t, n)
    BY <2>1 DEF Followed, InSlots
  <2>5. z = Stored(t, n)
    BY DEF z, StoredIn, Stored
  <2> QED
    BY <2>3, <2>4, <2>5 DEF t, n
<1> QED
  BY <1>1, <1>2, LatestKept, TagInvariant, PTL DEF Spec
=============================================================================
