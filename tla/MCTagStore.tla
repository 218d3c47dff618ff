------------------------------ MODULE MCTagStore ------------------------------
(***************************************************************************)
(* Lists that bring the same tags from several sides: texts, numbers wider *)
(* than their field, pairs in one piece and in two, empty and unusable     *)
(* values, pictures, long tags that collide with the program's own.        *)
(***************************************************************************)
EXTENDS TagStore

Title == 29
Track == 34
Tracknumber == 35
TotalTracks == 33
Discnumber == 21
Bpm == 11

AllTexts ==
  {"", "n", "n/t", "fdkaac", "iTunSMPB", "gapless", "A", "B", "S", "J", "2/3", "4", "5",
   "6", "7/8", "9", "90", "1", "120", "257", "fast", "other", "mood", "png", "gif", "bmp"}

UpTo(items, n) == UNION {[1 .. k -> items] : k \in 0 .. n}

\* Options, at most one of a kind of situation, and some that meet each other.
Options ==
  { Option("text", "", Text("A"), "argument"),
    Option("text", "", Empty, "argument"),
    Option("trkn", "", Pair("7/8", 7, 65537), "argument"),
    Option("cpil", "", Number("257", 257), "argument"),
    Option("tool", "", Text("other"), "argument"),
    Option("----", "iTunSMPB", Text("other"), "argument"),
    Option("covr", "", Text("png"), "file") }

SomeOptions ==
  UpTo(Options, 1) \cup
  { << Option("covr", "", Text("png"), "file"), Option("covr", "", Text("bmp"), "file"),
       Option("covr", "", Text("gif"), "file"), Option("covr", "", Text("png"), "file") >>,
    << Option("----", "mood", Text("A"), "argument"),
       Option("----", "iTunSMPB", Text("other"), "argument"),
       Option("----", "mood", Text("B"), "argument") >>,
    << Option("tmpo", "", Number("90", 90), "argument"),
       Option("tmpo", "", Text("fast"), "argument") >> }

Calls ==
  { Call(Title, Text("S")), Call(Track, Pair("2/3", 2, 3)), Call(Tracknumber, Number("4", 4)),
    Call(TotalTracks, Number("5", 5)), Call(Bpm, Number("120", 120)), Call(Title, Empty) }

SomeCalls ==
  { Append(s, FlushCall) : s \in UpTo(Calls, 2) } \cup
  { << Call(TotalTracks, Number("5", 5)), FlushCall, Call(Tracknumber, Number("4", 4)),
       FlushCall >>,
    << Call(Discnumber, Number("1", 1)), FlushCall, Call(Track, Pair("2/3", 2, 3)),
       FlushCall >>,
    <<>> }

SomeMembers ==
  { <<>>, <<Call(Title, Text("J"))>>, <<Call(Title, Empty)>>,
    <<Call(TotalTracks, Number("9", 9))>>,
    <<Call(TotalTracks, Number("9", 9)), Call(Track, Number("6", 6))>> }

\* For the claim that does not hold.
FileOptions ==
  UpTo({ Option("covr", "", Text("png"), from) : from \in {"file", "missing file"} }, 2)
None == { <<>> }

\* LatestSourceWins is about such lists.
ASSUME AllPlain == PlainLists
=============================================================================
