-------------------------- MODULE RouterConfigProofs --------------------------
(***************************************************************************)
(* What holds of the configuration files and of the artifacts made of them *)
(* for every set of machines, of files and of texts, every number of keys  *)
(* and of sessions of the wizard.                                          *)
(***************************************************************************)
EXTENDS RouterConfig, TextProofs

-----------------------------------------------------------------------------
(* roles.conf.                                                             *)
ExtraLines == {line \in Lines : IsExtra(line)}

Plain == STRING \ DOMAIN LowerCase

(* What a file parses to.                                                  *)
Confs ==
    [wanIfs : Seq(STRING), wanMacs : Seq(Plain), lanIfs : Seq(STRING),
     lanMacs : Seq(Plain), extras : Seq(ExtraLines)]

FieldsOf(keys) == [line \in Lines |-> IF line.key \in keys THEN line.value ELSE << >>]

ExtraOf == [line \in Lines |-> IF IsExtra(line) THEN <<line>> ELSE << >>]

LEMMA ParsedPieces ==
    /\ \A keys : IsPiece(FieldsOf(keys), Lines, STRING)
    /\ IsPiece(ExtraOf, Lines, ExtraLines)
    /\ \A text \in Seq(Lines) : \A keys : Fields(text, keys) = Gathered(text, FieldsOf(keys))
    /\ \A text \in Seq(Lines) : Extras(text) = Gathered(text, ExtraOf)
<1>1. \A keys : IsPiece(FieldsOf(keys), Lines, STRING)
  <2>1. << >> \in Seq(STRING) /\ \A line \in Lines : line.value \in Seq(STRING)
    BY EmptySeq DEF Lines
  <2> QED
    BY <2>1 DEF FieldsOf, IsPiece
<1>2. IsPiece(ExtraOf, Lines, ExtraLines)
  <2>1. ASSUME NEW line \in Lines
        PROVE  (IF IsExtra(line) THEN <<line>> ELSE << >>) \in Seq(ExtraLines)
    <3>1. IsExtra(line) => line \in ExtraLines
      BY DEF ExtraLines
    <3> HIDE DEF ExtraLines
    <3> QED
      BY <3>1
  <2> QED
    BY <2>1 DEF ExtraOf, IsPiece
<1>3. ASSUME NEW text \in Seq(Lines)
      PROVE  /\ \A keys : Fields(text, keys) = Gathered(text, FieldsOf(keys))
             /\ Extras(text) = Gathered(text, ExtraOf)
  <2>1. \A i \in DOMAIN text : text[i] \in Lines
    BY LenProperties, ElementOfSeq
  <2>2. ASSUME NEW keys
        PROVE  Pieces(text, FieldsOf(keys)) =
                 [i \in DOMAIN text |->
                    IF text[i].key \in keys THEN text[i].value ELSE << >>]
    BY <2>1 DEF Pieces, FieldsOf
  <2>3. Pieces(text, ExtraOf) =
          [i \in DOMAIN text |-> IF IsExtra(text[i]) THEN <<text[i]>> ELSE << >>]
    BY <2>1 DEF Pieces, ExtraOf
  <2> QED
    BY <2>2, <2>3 DEF Gathered, Fields, Extras
<1> QED
  BY <1>1, <1>2, <1>3

LEMMA LoweredTyped ==
    ASSUME NEW fields \in Seq(STRING)
    PROVE  /\ Lowered(fields) \in Seq(Plain)
           /\ fields \in Seq(Plain) => Lowered(fields) = fields
<1>1. /\ Len(fields) \in Nat /\ DOMAIN fields = 1 .. Len(fields)
      /\ \A i \in 1 .. Len(fields) : fields[i] \in STRING
      /\ fields = [i \in 1 .. Len(fields) |-> fields[i]]
  BY LenProperties, ElementOfSeq
<1>2. \A i \in 1 .. Len(fields) : Lowered(fields)[i] \in Plain
  BY <1>1, RolesAssumption DEF Lowered, Plain
<1>3. Lowered(fields) = [i \in 1 .. Len(fields) |-> Lowered(fields)[i]]
  BY <1>1 DEF Lowered
<1>4. Lowered(fields) \in Seq(Plain)
  BY <1>1, <1>2, <1>3
<1>5. ASSUME fields \in Seq(Plain) PROVE Lowered(fields) = fields
  <2>1. \A i \in 1 .. Len(fields) : fields[i] \notin DOMAIN LowerCase
    BY <1>5, ElementOfSeq DEF Plain
  <2>2. \A i \in 1 .. Len(fields) : Lowered(fields)[i] = fields[i]
    BY <1>1, <2>1 DEF Lowered
  <2> QED
    BY <1>1, <1>3, <2>2
<1> QED
  BY <1>4, <1>5

LEMMA ParseTyped ==
    ASSUME NEW text \in Seq(Lines)
    PROVE  ParseRolesConf(text) \in Confs
<1>1. ASSUME NEW keys PROVE Fields(text, keys) \in Seq(STRING)
  <2>1. IsPiece(FieldsOf(keys), Lines, STRING)
        /\ Fields(text, keys) = Gathered(text, FieldsOf(keys))
    BY ParsedPieces
  <2> QED
    BY <2>1, PiecesTyped
<1>2. Extras(text) \in Seq(ExtraLines)
  <2>1. IsPiece(ExtraOf, Lines, ExtraLines) /\ Extras(text) = Gathered(text, ExtraOf)
    BY ParsedPieces
  <2> QED
    BY <2>1, PiecesTyped
<1>3. \A keys : Lowered(Fields(text, keys)) \in Seq(Plain)
  BY <1>1, LoweredTyped
<1> QED
  BY <1>1, <1>2, <1>3 DEF ParseRolesConf, Confs

(* What is rendered parses to what was rendered.                           *)
LEMMA ParseRendered ==
    ASSUME NEW conf \in Confs
    PROVE  /\ RenderRolesConf(conf) \in Seq(Lines)
           /\ ParseRolesConf(RenderRolesConf(conf)) = conf
<1> DEFINE head == RoleLines(conf)
           extras == conf.extras
<1>1. /\ conf.wanIfs \in Seq(STRING) /\ conf.wanMacs \in Seq(Plain)
      /\ conf.lanIfs \in Seq(STRING) /\ conf.lanMacs \in Seq(Plain)
      /\ conf.wanMacs \in Seq(STRING) /\ conf.lanMacs \in Seq(STRING)
      /\ extras \in Seq(ExtraLines) /\ extras \in Seq(Lines)
      /\ conf = [wanIfs |-> conf.wanIfs, wanMacs |-> conf.wanMacs,
                 lanIfs |-> conf.lanIfs, lanMacs |-> conf.lanMacs,
                 extras |-> extras]
  <2>1. Plain \subseteq STRING /\ ExtraLines \subseteq Lines
    BY DEF Plain, ExtraLines
  <2> HIDE DEF Plain, ExtraLines
  <2> QED
    BY <2>1, SeqMonotonic DEF Confs
<1> DEFINE a == Line("#", << >>)
           b == Line("WAN_IFS", conf.wanIfs)
           c == Line("WAN_MACS", conf.wanMacs)
           d == Line("LAN_IFS", conf.lanIfs)
           e == Line("LAN_MACS", conf.lanMacs)
<1>2. /\ a \in Lines /\ b \in Lines /\ c \in Lines /\ d \in Lines /\ e \in Lines
      /\ a.key = "#" /\ b.key = "WAN_IFS" /\ c.key = "WAN_MACS"
      /\ d.key = "LAN_IFS" /\ e.key = "LAN_MACS"
      /\ b.value = conf.wanIfs /\ c.value = conf.wanMacs
      /\ d.value = conf.lanIfs /\ e.value = conf.lanMacs
  <2> DEFINE keys == {"#", "WAN_IFS", "WAN_MACS", "LAN_IFS", "LAN_MACS"}
  <2>1. ASSUME NEW key \in keys, NEW value \in Seq(STRING)
        PROVE  /\ Line(key, value) \in Lines
               /\ Line(key, value).key = key /\ Line(key, value).value = value
    BY DEF Line, Lines, RoleSets, KeysOf
  <2>2. << >> \in Seq(STRING)
    BY EmptySeq
  <2>3. "#" \in keys /\ "WAN_IFS" \in keys /\ "WAN_MACS" \in keys
        /\ "LAN_IFS" \in keys /\ "LAN_MACS" \in keys
    OBVIOUS
  <2> HIDE DEF extras, keys
  <2> QED
    BY <1>1, <2>1, <2>2, <2>3, Zenon
<1>3. /\ head = <<a, b, c, d, e>> /\ Len(head) = 5
      /\ head[1] = a /\ head[2] = b /\ head[3] = c /\ head[4] = d /\ head[5] = e
  BY DEF RoleLines
<1> HIDE DEF a, b, c, d, e, head
<1>4. head \in Seq(Lines)
  BY <1>2, <1>3
<1>5. RenderRolesConf(conf) = head \o extras /\ head \o extras \in Seq(Lines)
  BY <1>1, <1>4, ConcatProperties DEF RenderRolesConf, head
<1> HIDE DEF extras
<1>6. ASSUME NEW set \in RoleSets
      PROVE  Fields(head \o extras, KeysOf[set]) = conf[set]
  <2> DEFINE piece == FieldsOf(KeysOf[set])
  <2>1. IsPiece(piece, Lines, STRING) /\ Fields(head \o extras, KeysOf[set])
                                              = Gathered(head \o extras, piece)
    BY <1>5, ParsedPieces
  <2>2. Gathered(extras, piece) = << >>
    <3>1. \A line \in ExtraLines : piece[line] = << >>
      BY DEF ExtraLines, IsExtra, FieldsOf
    <3> HIDE DEF piece
    <3> QED
      BY <1>1, <3>1, GatheredNothing
  <2>3. /\ piece[a] = << >>
        /\ piece[b] = IF set = "wanIfs" THEN conf.wanIfs ELSE << >>
        /\ piece[c] = IF set = "wanMacs" THEN conf.wanMacs ELSE << >>
        /\ piece[d] = IF set = "lanIfs" THEN conf.lanIfs ELSE << >>
        /\ piece[e] = IF set = "lanMacs" THEN conf.lanMacs ELSE << >>
    BY <1>2 DEF FieldsOf, RoleSets, KeysOf
  <2> HIDE DEF piece
  <2>4. Gathered(head, piece)
          = (((piece[a] \o piece[b]) \o piece[c]) \o piece[d]) \o piece[e]
    BY <1>3, <1>4, <2>1, GatheredFive
  <2>5. set \in {"wanIfs", "wanMacs", "lanIfs", "lanMacs"}
    BY DEF RoleSets, KeysOf
  <2>6. \A value \in Seq(STRING) : value \o << >> = value /\ << >> \o value = value
    BY ConcatEmptySeq
  <2>7. << >> \in Seq(STRING)
    BY EmptySeq
  <2>8. Gathered(head, piece) = conf[set] /\ conf[set] \in Seq(STRING)
    <3>1. CASE set = "wanIfs"
      BY <1>1, <2>3, <2>4, <2>6, <2>7, <3>1
    <3>2. CASE set = "wanMacs"
      BY <1>1, <2>3, <2>4, <2>6, <2>7, <3>2
    <3>3. CASE set = "lanIfs"
      BY <1>1, <2>3, <2>4, <2>6, <2>7, <3>3
    <3>4. CASE set = "lanMacs"
      BY <1>1, <2>3, <2>4, <2>6, <2>7, <3>4
    <3> QED
      BY <2>5, <3>1, <3>2, <3>3, <3>4
  <2>9. Gathered(head \o extras, piece) = Gathered(head, piece) \o Gathered(extras, piece)
    <3>1. IsPiece(piece, Lines, STRING) /\ head \in Seq(Lines) /\ extras \in Seq(Lines)
      BY <1>1, <1>4, <2>1
    <3> QED
      BY <3>1, GatheredConcat
  <2> QED
    BY <2>1, <2>2, <2>6, <2>8, <2>9
<1>7. Extras(head \o extras) = extras
  <2>1. IsPiece(ExtraOf, Lines, ExtraLines)
        /\ Extras(head \o extras) = Gathered(head \o extras, ExtraOf)
    BY <1>5, ParsedPieces
  <2>2. Gathered(extras, ExtraOf) = extras
    <3>1. \A line \in ExtraLines : ExtraOf[line] = <<line>>
      BY DEF ExtraLines, ExtraOf
    <3> QED
      BY <1>1, <3>1, GatheredAll
  <2>3. Gathered(head, ExtraOf) = << >>
    <3>1. /\ ExtraOf[a] = << >> /\ ExtraOf[b] = << >> /\ ExtraOf[c] = << >>
          /\ ExtraOf[d] = << >> /\ ExtraOf[e] = << >>
      BY <1>2 DEF ExtraOf, IsExtra, RoleSets, KeysOf
    <3>2. Gathered(head, ExtraOf) = (((ExtraOf[a] \o ExtraOf[b]) \o ExtraOf[c])
                                       \o ExtraOf[d]) \o ExtraOf[e]
      BY <1>3, <1>4, <2>1, GatheredFive
    <3>3. << >> \o << >> = << >>
      BY EmptySeq, ConcatEmptySeq
    <3> QED
      BY <3>1, <3>2, <3>3
  <2>4. Gathered(head \o extras, ExtraOf) = Gathered(head, ExtraOf) \o Gathered(extras, ExtraOf)
    <3>1. IsPiece(ExtraOf, Lines, ExtraLines) /\ head \in Seq(Lines) /\ extras \in Seq(Lines)
      BY <1>1, <1>4, <2>1
    <3> QED
      BY <3>1, GatheredConcat
  <2> QED
    BY <1>1, <2>1, <2>2, <2>3, <2>4, ConcatEmptySeq
<1>8. /\ Lowered(conf.wanMacs) = conf.wanMacs /\ Lowered(conf.lanMacs) = conf.lanMacs
  BY <1>1, LoweredTyped
<1>9. /\ Fields(head \o extras, KeysOf.wanIfs) = conf.wanIfs
      /\ Fields(head \o extras, KeysOf.wanMacs) = conf.wanMacs
      /\ Fields(head \o extras, KeysOf.lanIfs) = conf.lanIfs
      /\ Fields(head \o extras, KeysOf.lanMacs) = conf.lanMacs
  <2>1. {"wanIfs", "wanMacs", "lanIfs", "lanMacs"} \subseteq RoleSets
    BY DEF RoleSets, KeysOf
  <2> QED
    BY <1>6, <2>1
<1> QED
  BY <1>1, <1>5, <1>7, <1>8, <1>9 DEF ParseRolesConf

(* What a restore writes of roles.conf is what it reads back.              *)
LEMMA SafeTwice ==
    ASSUME NEW text \in Seq(Lines)
    PROVE  /\ SafeRolesConf(text) \in Seq(Lines)
           /\ ParseRolesConf(SafeRolesConf(text)) = ParseRolesConf(text)
           /\ SafeRolesConf(SafeRolesConf(text)) = SafeRolesConf(text)
           /\ IsSafe(SafeRolesConf(text)) <=> IsSafe(text)
<1>1. ParseRolesConf(text) \in Confs
  BY ParseTyped
<1>2. /\ SafeRolesConf(text) \in Seq(Lines)
      /\ ParseRolesConf(SafeRolesConf(text)) = ParseRolesConf(text)
  BY <1>1, ParseRendered DEF SafeRolesConf
<1>3. SafeRolesConf(SafeRolesConf(text)) = SafeRolesConf(text)
  BY <1>2 DEF SafeRolesConf
<1>4. IsSafe(SafeRolesConf(text)) <=> IsSafe(text)
  BY <1>2 DEF IsSafe
<1> QED
  BY <1>2, <1>3, <1>4

-----------------------------------------------------------------------------
(* The other texts.                                                        *)

(* Trimmed takes the empty lines at the end, and no other.                 *)
IsTrim(text, last) ==
    /\ last \in 0 .. Len(text)
    /\ Trimmed(text) = SubSeq(text, 1, last)
    /\ \A i \in last + 1 .. Len(text) : text[i] = Blank

LEMMA TrimmedIs ==
    ASSUME NEW T, NEW text \in Seq(T)
    PROVE  \E last : IsTrim(text, last)
<1> DEFINE kept == {0} \cup {i \in DOMAIN text : text[i] # Blank}
           last == Max(kept)
<1>1. Len(text) \in Nat /\ DOMAIN text = 1 .. Len(text)
  OBVIOUS
<1>2. last \in kept /\ \A i \in kept : i <= last
  <2>1. kept \in SUBSET (0 .. Len(text)) /\ kept # {}
    BY <1>1
  <2> HIDE DEF kept
  <2> QED
    BY <1>1, <2>1, LargestIsIn
<1>3. Trimmed(text) = SubSeq(text, 1, last)
  BY DEF Trimmed
<1> HIDE DEF last
<1>4. last \in 0 .. Len(text)
  BY <1>1, <1>2
<1>5. ASSUME NEW i \in last + 1 .. Len(text) PROVE text[i] = Blank
  <2>1. i \in DOMAIN text /\ ~(i <= last)
    BY <1>1, <1>4
  <2> QED
    BY <1>2, <2>1
<1> QED
  BY <1>3, <1>4, <1>5 DEF IsTrim

LEMMA TrimmedTyped ==
    ASSUME NEW T, NEW text \in Seq(T)
    PROVE  /\ Trimmed(text) \in Seq(T)
           /\ \A i \in DOMAIN Trimmed(text) :
                i \in DOMAIN text /\ Trimmed(text)[i] = text[i]
           /\ Blank \notin T => Trimmed(text) = text
<1>1. PICK last : IsTrim(text, last)
  BY TrimmedIs
<1>2. /\ last \in 0 .. Len(text) /\ Trimmed(text) = SubSeq(text, 1, last)
      /\ \A i \in last + 1 .. Len(text) : text[i] = Blank
      /\ Len(text) \in Nat /\ DOMAIN text = 1 .. Len(text)
  BY <1>1 DEF IsTrim
<1>3. /\ SubSeq(text, 1, last) \in Seq(T)
      /\ Len(SubSeq(text, 1, last)) = last
      /\ \A i \in 1 .. last : SubSeq(text, 1, last)[i] = text[i]
  BY <1>2
<1>4. DOMAIN Trimmed(text) = 1 .. last
  BY <1>2, <1>3
<1>5. ASSUME Blank \notin T PROVE Trimmed(text) = text
  <2>1. last = Len(text)
    <3> SUFFICES ASSUME last # Len(text) PROVE FALSE
      OBVIOUS
    <3>1. Len(text) \in last + 1 .. Len(text) /\ Len(text) \in 1 .. Len(text)
      <4> DEFINE n == Len(text)
      <4>1. n \in Nat /\ last \in 0 .. n /\ last # n
        BY <1>2
      <4> HIDE DEF n
      <4>2. n \in last + 1 .. n /\ n \in 1 .. n
        BY <4>1
      <4> QED
        BY <4>2 DEF n
    <3>2. text[Len(text)] = Blank /\ Len(text) \in DOMAIN text
      BY <1>2, <3>1
    <3> QED
      BY <1>5, <3>2, ElementOfSeq
  <2> QED
    BY <1>2, <1>3, <2>1, SeqEqual
<1>6. ASSUME NEW i \in 1 .. last
      PROVE  i \in DOMAIN text /\ Trimmed(text)[i] = text[i]
  BY <1>2, <1>3
<1> QED
  BY <1>2, <1>3, <1>4, <1>5, <1>6

(* A line of any text but roles.conf, empty ones included.                 *)
AnyWords == [word : STRING \cup {""}, tail : Tails]

NormalPiece == [line \in AnyWords |-> NormalizedLine(line)]
SanePiece == [line \in AnyWords |-> SanitizedLine(line)]

LEMMA WordTyped ==
    /\ \A word \in STRING \cup {""}, tail \in Tails :
         /\ Word(word, tail) \in AnyWords
         /\ Word(word, tail).word = word /\ Word(word, tail).tail = tail
    /\ Blank \in AnyWords /\ Blank.word = "" /\ Blank.tail = "none"
    /\ Words \subseteq AnyWords
<1>1. \A word \in STRING \cup {""}, tail \in Tails :
        /\ Word(word, tail) \in AnyWords
        /\ Word(word, tail).word = word /\ Word(word, tail).tail = tail
  BY DEF Word, AnyWords
<1>2. "none" \in Tails /\ "" \in STRING \cup {""}
  BY DEF Tails
<1>3. Blank \in AnyWords /\ Blank.word = "" /\ Blank.tail = "none"
  BY <1>1, <1>2 DEF Blank
<1>4. Words \subseteq AnyWords
  BY DEF Words, AnyWords
<1> QED
  BY <1>1, <1>3, <1>4

LEMMA LinesTyped ==
    ASSUME NEW line \in AnyWords
    PROVE  /\ NormalizedLine(line) \in Seq(AnyWords)
           /\ NormalizedLine(line) = << >> <=> IsEmptyLine(line)
           /\ SanitizedLine(line) \in Seq(AnyWords)
           /\ \A i \in DOMAIN SanitizedLine(line) :
                SanitizedLine(line)[i].word \in {line.word, ""}
<1> DEFINE bare == Word(line.word, "none")
<1>1. /\ line.word \in STRING \cup {""} /\ line.tail \in Tails
      /\ bare \in AnyWords /\ bare.word = line.word
      /\ Blank \in AnyWords /\ Blank.word = ""
  <2>1. line.word \in STRING \cup {""} /\ line.tail \in Tails /\ "none" \in Tails
    BY DEF AnyWords, Tails
  <2> QED
    BY <2>1, WordTyped
<1>2. << >> \in Seq(AnyWords)
  BY EmptySeq
<1> HIDE DEF bare
<1>3. /\ <<bare>> \in Seq(AnyWords) /\ <<line>> \in Seq(AnyWords)
      /\ <<bare, Blank>> \in Seq(AnyWords)
      /\ <<bare>> # << >> /\ <<line>> # << >>
  <2>1. \A x \in AnyWords : <<x>> \in Seq(AnyWords) /\ <<x>> # << >>
    OBVIOUS
  <2>2. \A x, y \in AnyWords : <<x, y>> \in Seq(AnyWords)
    OBVIOUS
  <2> QED
    BY <1>1, <2>1, <2>2, Zenon
<1>4. /\ NormalizedLine(line) \in {<< >>, <<line>>, <<bare>>}
      /\ NormalizedLine(line) = << >> <=> IsEmptyLine(line)
  <2>1. CASE IsEmptyLine(line)
    BY <2>1 DEF NormalizedLine, IsEmptyLine
  <2>2. CASE ~IsEmptyLine(line) /\ line.tail = "control"
    BY <1>3, <2>2 DEF NormalizedLine
  <2>3. CASE ~IsEmptyLine(line) /\ line.tail # "control"
    BY <1>3, <2>3 DEF NormalizedLine, bare
  <2> QED
    BY <2>1, <2>2, <2>3
<1>5. SanitizedLine(line) \in {<<bare, Blank>>, <<bare>>, <<line>>}
  BY DEF SanitizedLine, bare
<1>6. \A i \in DOMAIN SanitizedLine(line) :
        SanitizedLine(line)[i].word \in {line.word, ""}
  <2>1. \A x : \A i \in DOMAIN <<x>> : <<x>>[i] = x
    OBVIOUS
  <2>2. \A x, y : \A i \in DOMAIN <<x, y>> : <<x, y>>[i] \in {x, y}
    <3> SUFFICES ASSUME NEW x, NEW y, NEW i \in DOMAIN <<x, y>>
                 PROVE  <<x, y>>[i] \in {x, y}
      OBVIOUS
    <3>1. i \in {1, 2}
      OBVIOUS
    <3> QED
      BY <3>1
  <2>3. ASSUME NEW seq, seq \in {<<bare, Blank>>, <<bare>>, <<line>>}, NEW i \in DOMAIN seq
        PROVE  seq[i] \in {bare, Blank, line}
    <3>1. CASE seq = <<bare, Blank>>
      BY <2>2, <2>3, <3>1
    <3>2. CASE seq = <<bare>>
      BY <2>1, <2>3, <3>2
    <3>3. CASE seq = <<line>>
      BY <2>1, <2>3, <3>3
    <3> QED
      BY <2>3, <3>1, <3>2, <3>3
  <2>4. \A i \in DOMAIN SanitizedLine(line) : SanitizedLine(line)[i] \in {bare, Blank, line}
    BY <1>5, <2>3
  <2> QED
    BY <1>1, <2>4
<1> QED
  BY <1>2, <1>3, <1>4, <1>5, <1>6

LEMMA WordPieces ==
    /\ IsPiece(NormalPiece, AnyWords, AnyWords)
    /\ IsPiece(SanePiece, AnyWords, AnyWords)
    /\ \A path : path # RolesPath => \A text \in Seq(AnyWords) :
         /\ Normalized(path, text) = Gathered(text, NormalPiece)
         /\ Sanitized(path, text) = Gathered(text, SanePiece)
<1>1. IsPiece(NormalPiece, AnyWords, AnyWords)
  BY LinesTyped DEF IsPiece, NormalPiece
<1>2. IsPiece(SanePiece, AnyWords, AnyWords)
  BY LinesTyped DEF IsPiece, SanePiece
<1>3. ASSUME NEW path, path # RolesPath, NEW text \in Seq(AnyWords)
      PROVE  /\ Normalized(path, text) = Gathered(text, NormalPiece)
             /\ Sanitized(path, text) = Gathered(text, SanePiece)
  <2>1. \A i \in DOMAIN text : text[i] \in AnyWords
    BY LenProperties, ElementOfSeq
  <2>2. Pieces(text, NormalPiece) = [i \in DOMAIN text |-> NormalizedLine(text[i])]
    BY <2>1 DEF Pieces, NormalPiece
  <2>3. Pieces(text, SanePiece) = [i \in DOMAIN text |-> SanitizedLine(text[i])]
    BY <2>1 DEF Pieces, SanePiece
  <2> QED
    BY <1>3, <2>2, <2>3 DEF Gathered, Normalized, Sanitized
<1> QED
  BY <1>1, <1>2, <1>3

(* What is in a file.                                                      *)
IsText(path, text) ==
    IF path = RolesPath THEN text \in Seq(Lines) ELSE text \in Seq(AnyWords)

(* A text is blank when nothing is left of it.                             *)
LEMMA BlankIsNothing ==
    ASSUME NEW path, NEW text, IsText(path, text)
    PROVE  IsBlank(path, text) <=> Normalized(path, text) = << >>
<1>1. CASE path = RolesPath
  BY <1>1 DEF IsBlank, Normalized
<1>2. CASE path # RolesPath
  <2>0. text \in Seq(AnyWords)
    BY <1>2 DEF IsText
  <2>1. /\ \A i \in DOMAIN text : text[i] \in AnyWords
        /\ Normalized(path, text) = Gathered(text, NormalPiece)
        /\ Gathered(text, NormalPiece) \in Seq(AnyWords)
    <3>1. Gathered(text, NormalPiece) \in Seq(AnyWords)
      BY <2>0, WordPieces, PiecesTyped
    <3> QED
      BY <1>2, <2>0, <3>1, WordPieces, ElementOfSeq
  <2>2. \A x : x \in ToSet(Gathered(text, NormalPiece)) <=>
                  \E i \in DOMAIN text : x \in ToSet(NormalPiece[text[i]])
    BY <2>0, WordPieces, GatheredMembers
  <2>3. ASSUME NEW seq \in Seq(AnyWords)
        PROVE  seq = << >> <=> \A x : x \notin ToSet(seq)
    <3>1. seq # << >> => seq[1] \in ToSet(seq)
      BY DEF ToSet
    <3>2. ToSet(<< >>) = {}
      BY DEF ToSet
    <3> QED
      BY <3>1, <3>2
  <2>4. \A i \in DOMAIN text :
          /\ NormalPiece[text[i]] \in Seq(AnyWords)
          /\ NormalPiece[text[i]] = << >> <=> IsEmptyLine(text[i])
    BY <2>1, LinesTyped DEF NormalPiece
  <2>5. Normalized(path, text) = << >> <=>
          \A i \in DOMAIN text : NormalPiece[text[i]] = << >>
    BY <2>1, <2>2, <2>3, <2>4
  <2> QED
    BY <1>2, <2>4, <2>5 DEF IsBlank
<1> QED
  BY <1>1, <1>2

(* No preview sees the empty lines at the end.                             *)
LEMMA TrimmedSaysTheSame ==
    ASSUME NEW path, NEW text, IsText(path, text)
    PROVE  /\ IsText(path, Trimmed(text))
           /\ Normalized(path, Trimmed(text)) = Normalized(path, text)
<1>1. CASE path = RolesPath
  <2>1. Blank \notin Lines
    BY DEF Blank, Word, Lines
  <2>2. text \in Seq(Lines)
    BY <1>1 DEF IsText
  <2>3. Trimmed(text) = text
    BY <2>1, <2>2, TrimmedTyped
  <2> QED
    BY <2>3
<1>2. CASE path # RolesPath
  <2>1. text \in Seq(AnyWords)
    BY <1>2 DEF IsText
  <2>2. PICK last : IsTrim(text, last)
    BY <2>1, TrimmedIs
  <2> DEFINE head == SubSeq(text, 1, last)
             rest == SubSeq(text, last + 1, Len(text))
  <2>3. /\ last \in 0 .. Len(text) /\ Len(text) \in Nat /\ Trimmed(text) = head
        /\ \A i \in last + 1 .. Len(text) : text[i] = Blank
    BY <2>1, <2>2 DEF IsTrim
  <2>4. /\ head \in Seq(AnyWords) /\ Len(head) = last
        /\ \A i \in 1 .. last : head[i] = text[i]
    BY <2>1, <2>3
  <2>5. /\ rest \in Seq(AnyWords) /\ Len(rest) = Len(text) - last
        /\ \A i \in 1 .. Len(text) - last : rest[i] = text[last + i]
    BY <2>1, <2>3
  <2> HIDE DEF head, rest
  <2>6. text = head \o rest
    <3>1. /\ head \o rest \in Seq(AnyWords) /\ Len(head \o rest) = Len(text)
          /\ \A i \in 1 .. Len(text) :
               (head \o rest)[i] = IF i <= last THEN head[i] ELSE rest[i - last]
      BY <2>3, <2>4, <2>5, ConcatProperties
    <3>2. ASSUME NEW i \in 1 .. Len(text) PROVE (head \o rest)[i] = text[i]
      <4>1. CASE i <= last
        BY <2>3, <2>4, <3>1, <4>1
      <4>2. CASE ~(i <= last)
        <5>1. i - last \in 1 .. Len(text) - last /\ last + (i - last) = i
          BY <2>3, <4>2
        <5> QED
          BY <2>5, <3>1, <4>2, <5>1
      <4> QED
        BY <4>1, <4>2
    <3> QED
      BY <2>1, <3>1, <3>2, SeqEqual
  <2>7. rest \in Seq({Blank})
    <3>1. \A i \in 1 .. Len(text) - last : rest[i] \in {Blank}
      BY <2>3, <2>5
    <3>2. rest = [i \in 1 .. Len(text) - last |-> rest[i]] /\ Len(text) - last \in Nat
      BY <2>3, <2>5
    <3> QED
      BY <3>1, <3>2
  <2>8. Gathered(rest, NormalPiece) = << >>
    <3>1. \A line \in {Blank} : NormalPiece[line] = << >>
      BY WordTyped, LinesTyped DEF NormalPiece, IsEmptyLine
    <3> QED
      BY <2>7, <3>1, GatheredNothing
  <2>9. Gathered(text, NormalPiece)
          = Gathered(head, NormalPiece) \o Gathered(rest, NormalPiece)
    BY <2>4, <2>5, <2>6, WordPieces, GatheredConcat
  <2>10. Gathered(head, NormalPiece) \o << >> = Gathered(head, NormalPiece)
    <3>1. Gathered(head, NormalPiece) \in Seq(AnyWords)
      BY <2>4, WordPieces, PiecesTyped
    <3> QED
      BY <3>1, ConcatEmptySeq
  <2> QED
    BY <1>2, <2>1, <2>3, <2>4, <2>8, <2>9, <2>10, WordPieces DEF IsText
<1> QED
  BY <1>1, <1>2

(* Nor what is sanitized, but for a control character.                     *)
HasControls(text) == \E i \in DOMAIN text : text[i].tail = "control"

LEMMA SanitizedSaysTheSame ==
    ASSUME NEW path, NEW text, IsText(path, text),
           path # RolesPath => ~HasControls(text)
    PROVE  Normalized(path, Sanitized(path, text)) = Normalized(path, text)
<1>1. CASE path = RolesPath
  BY <1>1 DEF Sanitized
<1>2. CASE path # RolesPath
  <2> DEFINE Calm == {line \in AnyWords : line.tail # "control"}
  <2>1. text \in Seq(AnyWords) /\ ~HasControls(text)
    BY <1>2 DEF IsText
  <2>2. text \in Seq(Calm)
    <3>1. /\ Len(text) \in Nat /\ text = [i \in 1 .. Len(text) |-> text[i]]
          /\ \A i \in 1 .. Len(text) : text[i] \in Calm
      BY <2>1, ElementOfSeq DEF HasControls
    <3> HIDE DEF Calm
    <3> QED
      BY <3>1
  <2> DEFINE normal == [line \in Calm |-> NormalizedLine(line)]
             sane == [line \in Calm |-> SanitizedLine(line)]
  <2>3. IsPiece(normal, Calm, AnyWords) /\ IsPiece(sane, Calm, AnyWords)
    BY LinesTyped DEF IsPiece
  <2>4. IsComposed(normal, sane, NormalPiece, Calm)
    <3> SUFFICES ASSUME NEW line \in Calm
                 PROVE  Gathered(SanitizedLine(line), NormalPiece) = NormalizedLine(line)
      BY DEF IsComposed
    <3>1. line \in AnyWords /\ line.tail # "control"
      OBVIOUS
    <3> HIDE DEF Calm
    <3>2. CASE line.tail = "cr"
      <4> DEFINE bare == Word(line.word, "none")
      <4>1. SanitizedLine(line) = <<bare, Blank>>
        BY <3>2 DEF SanitizedLine
      <4>2. bare \in AnyWords /\ bare.word = line.word /\ bare.tail = "none"
            /\ Blank \in AnyWords /\ bare = Word(bare.word, "none")
        <5>1. line.word \in STRING \cup {""} /\ "none" \in Tails
          BY <3>1 DEF AnyWords, Tails
        <5> QED
          BY <5>1, WordTyped
      <4>3. NormalizedLine(line) = NormalizedLine(bare)
        BY <3>2, <4>2 DEF NormalizedLine, IsEmptyLine
      <4> HIDE DEF bare
      <4> DEFINE one == <<bare>>
      <4>4. one \in Seq(AnyWords) /\ Append(one, Blank) = <<bare, Blank>>
        <5>1. \A x \in AnyWords : <<x>> \in Seq(AnyWords)
          OBVIOUS
        <5>2. ASSUME NEW x \in AnyWords, NEW y \in AnyWords
              PROVE  Append(<<x>>, y) = <<x, y>>
          <6> DEFINE both == <<x, y>>
                     joined == Append(<<x>>, y)
          <6>1. <<x>> \in Seq(AnyWords) /\ Len(<<x>>) = 1 /\ <<x>>[1] = x
            OBVIOUS
          <6>2. /\ joined \in Seq(AnyWords) /\ Len(joined) = 2
                /\ joined[1] = x /\ joined[2] = y
            BY <6>1, AppendProperties
          <6>3. both \in Seq(AnyWords) /\ Len(both) = 2 /\ both[1] = x /\ both[2] = y
            OBVIOUS
          <6> HIDE DEF both, joined
          <6>4. \A i \in 1 .. 2 : joined[i] = both[i]
            BY <6>2, <6>3
          <6>5. joined = both
            BY <6>2, <6>3, <6>4, SeqEqual
          <6> QED
            BY <6>5 DEF joined, both
        <5> QED
          BY <4>2, <5>1, <5>2, Zenon
      <4>5. Gathered(one, NormalPiece) = NormalPiece[bare]
        BY <4>2, WordPieces, GatheredOne
      <4> HIDE DEF one
      <4>6. Gathered(Append(one, Blank), NormalPiece)
              = Gathered(one, NormalPiece) \o NormalPiece[Blank]
        <5>1. one \in Seq(AnyWords) /\ Blank \in AnyWords
              /\ IsPiece(NormalPiece, AnyWords, AnyWords)
          BY <4>2, <4>4, WordPieces
        <5> QED
          BY <5>1, GatheredAppend
      <4>7. /\ NormalPiece[Blank] = << >> /\ NormalPiece[bare] = NormalizedLine(bare)
            /\ NormalizedLine(bare) \o << >> = NormalizedLine(bare)
        BY <4>2, WordTyped, LinesTyped, ConcatEmptySeq DEF NormalPiece, IsEmptyLine
      <4> QED
        BY <4>1, <4>3, <4>4, <4>5, <4>6, <4>7
    <3>3. CASE line.tail # "cr"
      <4>1. SanitizedLine(line) = <<line>>
        BY <3>1, <3>3 DEF SanitizedLine
      <4>2. Gathered(<<line>>, NormalPiece) = NormalPiece[line]
        BY <3>1, WordPieces, GatheredOne
      <4> QED
        BY <3>1, <4>1, <4>2 DEF NormalPiece
    <3> QED
      BY <3>2, <3>3
  <2>5. Gathered(text, normal) = Gathered(text, NormalPiece)
        /\ Gathered(text, sane) = Gathered(text, SanePiece)
    <3>1. \A i \in DOMAIN text : text[i] \in Calm
      BY <2>2, ElementOfSeq
    <3>2. Pieces(text, normal) = Pieces(text, NormalPiece)
      BY <3>1 DEF Pieces, NormalPiece
    <3>3. Pieces(text, sane) = Pieces(text, SanePiece)
      BY <3>1 DEF Pieces, SanePiece
    <3> QED
      BY <3>2, <3>3 DEF Gathered
  <2> HIDE DEF normal, sane, Calm
  <2>6. Gathered(Gathered(text, sane), NormalPiece) = Gathered(text, normal)
    BY <2>2, <2>3, <2>4, WordPieces, GatheredTwice
  <2>7. Gathered(text, SanePiece) \in Seq(AnyWords)
    BY <2>1, WordPieces, PiecesTyped
  <2> QED
    BY <1>2, <2>1, <2>5, <2>6, <2>7, WordPieces
<1> QED
  BY <1>1, <1>2

(* What is read back of a text is a text, and has key material only where  *)
(* there was.                                                              *)
HasKeys(text) == \E i \in DOMAIN text : text[i].word \in KeyLines

LEMMA SanitizedTyped ==
    ASSUME NEW path, NEW text, IsText(path, text)
    PROVE  /\ IsText(path, Sanitized(path, text))
           /\ path # RolesPath /\ ~HasKeys(text) => ~HasKeys(Sanitized(path, text))
<1>1. CASE path = RolesPath
  BY <1>1 DEF Sanitized
<1>2. CASE path # RolesPath
  <2>1. text \in Seq(AnyWords) /\ Sanitized(path, text) = Gathered(text, SanePiece)
    BY <1>2, WordPieces DEF IsText
  <2>2. Gathered(text, SanePiece) \in Seq(AnyWords)
    BY <2>1, WordPieces, PiecesTyped
  <2>3. \A x : x \in ToSet(Gathered(text, SanePiece)) <=>
                  \E i \in DOMAIN text : x \in ToSet(SanePiece[text[i]])
    BY <2>1, WordPieces, GatheredMembers
  <2>4. ASSUME ~HasKeys(text), NEW k \in DOMAIN Gathered(text, SanePiece)
        PROVE  Gathered(text, SanePiece)[k].word \notin KeyLines
    <3> DEFINE line == Gathered(text, SanePiece)[k]
    <3>1. PICK i \in DOMAIN text : line \in ToSet(SanePiece[text[i]])
      BY <2>3, <2>4 DEF ToSet
    <3> HIDE DEF line
    <3>2. text[i] \in AnyWords /\ text[i].word \notin KeyLines
      BY <2>1, <2>4, ElementOfSeq DEF HasKeys
    <3>3. line.word \in {text[i].word, ""}
      BY <3>1, <3>2, LinesTyped DEF SanePiece, ToSet
    <3> QED
      BY <3>2, <3>3, ArtifactAssumption DEF line
  <2> QED
    BY <1>2, <2>1, <2>2, <2>4 DEF IsText, HasKeys
<1> QED
  BY <1>1, <1>2

(* What StripWireguard leaves of a tunnel's file holds no key line, and of *)
(* a file without one it takes but the empty lines at the end.             *)
LEMMA KeysAreStripped ==
    ASSUME NEW text \in Seq(AnyWords)
    PROVE  /\ StripWireguard(text) \in Seq(AnyWords)
           /\ ~HasKeys(StripWireguard(text))
           /\ ~HasKeys(text) => StripWireguard(text) = Trimmed(text)
<1> DEFINE clean == [i \in DOMAIN text |->
                       IF text[i].word \in KeyLines THEN Word(Removed, "none")
                       ELSE text[i]]
<1>1. /\ Len(text) \in Nat /\ DOMAIN text = 1 .. Len(text)
      /\ \A i \in DOMAIN text : text[i] \in AnyWords
      /\ text = [i \in 1 .. Len(text) |-> text[i]]
  BY LenProperties, ElementOfSeq
<1>2. /\ Word(Removed, "none") \in AnyWords
      /\ Word(Removed, "none").word \notin KeyLines
  <2>1. Removed \in STRING \cup {""} /\ "none" \in Tails
    BY ArtifactAssumption DEF Tails
  <2> QED
    BY <2>1, WordTyped, ArtifactAssumption
<1>3. /\ clean = [i \in 1 .. Len(text) |-> clean[i]]
      /\ \A i \in 1 .. Len(text) : clean[i] \in AnyWords /\ clean[i].word \notin KeyLines
  BY <1>1, <1>2
<1>4. ~HasKeys(text) => clean = text
  BY <1>1 DEF HasKeys
<1>5. StripWireguard(text) = Trimmed(clean)
  BY DEF StripWireguard
<1> HIDE DEF clean
<1>6. clean \in Seq(AnyWords) /\ DOMAIN clean = 1 .. Len(text)
  BY <1>1, <1>3
<1>7. /\ Trimmed(clean) \in Seq(AnyWords)
      /\ \A i \in DOMAIN Trimmed(clean) :
           i \in DOMAIN clean /\ Trimmed(clean)[i] = clean[i]
  BY <1>6, TrimmedTyped
<1>8. ~HasKeys(Trimmed(clean))
  BY <1>3, <1>6, <1>7 DEF HasKeys
<1> QED
  BY <1>4, <1>5, <1>7, <1>8

-----------------------------------------------------------------------------
(* The state.                                                              *)

(* The screen and the restore are records, and the rows are rows.          *)
Shapes ==
    /\ screen = [step |-> screen.step, rows |-> screen.rows,
                 prev |-> screen.prev, content |-> screen.content]
    /\ screen.rows = [i \in DOMAIN screen.rows |->
         [name |-> screen.rows[i].name, mac |-> screen.rows[i].mac,
          role |-> screen.rows[i].role, byMac |-> screen.rows[i].byMac]]
    /\ opened = [status |-> opened.status, sources |-> opened.sources,
                 verifier |-> opened.verifier, missing |-> opened.missing,
                 agreed |-> opened.agreed]

(* Every file of them is a text.                                           *)
FilesAreTexts(files) == \A path \in DOMAIN files : IsText(path, files[path])

(* What a restore reads back of the artifact of some sources.              *)
Expected(sources) ==
    [path \in Items(sources) |-> Sanitized(path, PartFiles(sources)[path])]

(* Whoever opens the files, they are refused or read back as the sources   *)
(* they were made of, and only the key of their signer verifies them.      *)
Faithful(files, sources, signer) ==
    \A verifier \in Keys \cup {NoKey} :
        Opens(files, verifier) =>
            /\ SourcesFromParts(files) = Expected(sources)
            /\ verifier \in {NoKey, signer}

(* Nothing is opened before there is an artifact, and it does not change   *)
(* while it is open.                                                       *)
ArchiveStands ==
    /\ archive = << >> => opened.status = "none"
    /\ archive # << >> =>
         /\ ~damaged => archive = Assemble(origin.sources, origin.signer)
         /\ Faithful(archive, origin.sources, origin.signer)
    /\ opened.status = "accepted" =>
         /\ opened.sources = Expected(origin.sources)
         /\ opened.verifier \in {NoKey, origin.signer}
    /\ opened.status # "accepted" => opened.missing = {} /\ restored = {}

(* The tunnels of the artifact were stripped.                              *)
TunnelsStripped ==
    \A path \in Items(origin.sources) :
        path.subsystem = "wireguard" => ~HasKeys(origin.sources[path])

(* All files are of subsystems a backup knows; before the export, only     *)
(* roles.conf is not as some machine came with it.                         *)
FilesStand ==
    /\ \A path \in DOMAIN disk \cup DOMAIN origin.sources :
         path.subsystem \in Subsystems
    /\ archive = << >> => \E machine \in Machines :
         \A path \in DOMAIN disk \ {RolesPath} :
             path \in DOMAIN machine.disk /\ disk[path] = machine.disk[path]
    /\ TunnelsStripped

ConfigInv == TypeOK /\ Shapes /\ ArchiveStands /\ FilesStand

-----------------------------------------------------------------------------
(* The manifest and the checksums of the artifact of some sources.         *)
Manifest(sources) ==
    [schema |-> SchemaVersion,
     parts |-> [path \in DOMAIN PartFiles(sources) |->
                  [subsystem |-> path.subsystem, sum |-> PartFiles(sources)[path]]]]

Checksums(sources) == With(PartFiles(sources), ManifestPath, Manifest(sources))

IsKnown(sources) == \A path \in DOMAIN sources : path.subsystem \in Subsystems

(* The files are those Assemble makes of the sources: what is where.        *)
IsArtifactOf(files, sources, signer) ==
    /\ DOMAIN files = Items(sources) \cup {ManifestPath, ChecksumPath}
                        \cup (IF signer = NoKey THEN {} ELSE {SignaturePath})
    /\ files[ManifestPath] = Manifest(sources)
    /\ files[ChecksumPath] = Checksums(sources)
    /\ \A path \in Items(sources) : files[path] = PartFiles(sources)[path]
    /\ signer # NoKey =>
         files[SignaturePath] = [key |-> signer, over |-> Checksums(sources)]
    /\ DOMAIN Checksums(sources) = Items(sources) \cup {ManifestPath}
    /\ Checksums(sources)[ManifestPath] = Manifest(sources)
    /\ \A path \in Items(sources) :
         Checksums(sources)[path] = PartFiles(sources)[path]
    /\ ManifestPath # ChecksumPath /\ ManifestPath # SignaturePath
    /\ ChecksumPath # SignaturePath
    /\ {ManifestPath, ChecksumPath, SignaturePath} \cap Items(sources) = {}

LEMMA Assembled ==
    ASSUME NEW sources, IsKnown(sources), NEW signer
    PROVE  IsArtifactOf(Assemble(sources, signer), sources, signer)
<1>1. /\ ManifestPath # ChecksumPath /\ ManifestPath # SignaturePath
      /\ ChecksumPath # SignaturePath
      /\ {ManifestPath, ChecksumPath, SignaturePath} \cap Items(sources) = {}
  <2>1. /\ ManifestPath.subsystem = "manifest" /\ ChecksumPath.subsystem = "checksum"
        /\ SignaturePath.subsystem = "signature"
    BY DEF ManifestPath, ChecksumPath, SignaturePath, Path
  <2>2. \A path \in Items(sources) : path.subsystem \in Subsystems
    BY DEF IsKnown, Items
  <2> QED
    BY <2>1, <2>2 DEF Subsystems
<1>2. DOMAIN PartFiles(sources) = Items(sources)
  BY DEF PartFiles
<1>3. /\ DOMAIN Checksums(sources) = Items(sources) \cup {ManifestPath}
      /\ Checksums(sources)[ManifestPath] = Manifest(sources)
      /\ \A path \in Items(sources) :
           Checksums(sources)[path] = PartFiles(sources)[path]
  BY <1>1, <1>2 DEF Checksums, With
<1> DEFINE files == With(Checksums(sources), ChecksumPath, Checksums(sources))
<1>4. Assemble(sources, signer) =
        IF signer = NoKey THEN files
        ELSE With(files, SignaturePath, [key |-> signer, over |-> Checksums(sources)])
  BY DEF Assemble, Checksums, Manifest
<1>5. /\ DOMAIN files = Items(sources) \cup {ManifestPath, ChecksumPath}
      /\ files[ManifestPath] = Manifest(sources)
      /\ files[ChecksumPath] = Checksums(sources)
      /\ \A path \in Items(sources) : files[path] = PartFiles(sources)[path]
  BY <1>1, <1>3 DEF With
<1> HIDE DEF files
<1> QED
  BY <1>1, <1>3, <1>4, <1>5 DEF With, IsArtifactOf

(* With its manifest and its parts whole, an artifact reads back as what   *)
(* it was made of.                                                         *)
LEMMA ReadsBack ==
    ASSUME NEW sources, NEW files,
           files[ManifestPath] = Manifest(sources),
           \A path \in Items(sources) : files[path] = PartFiles(sources)[path]
    PROVE  SourcesFromParts(files) = Expected(sources)
<1>1. DOMAIN files[ManifestPath].parts = Items(sources)
  BY DEF Manifest, PartFiles
<1>2. SourcesFromParts(files) = [path \in Items(sources) |-> Sanitized(path, files[path])]
  BY <1>1 DEF SourcesFromParts
<1> QED
  BY <1>2 DEF Expected

LEMMA UndamagedFaithful ==
    ASSUME NEW files, NEW sources, NEW signer, IsArtifactOf(files, sources, signer)
    PROVE  Faithful(files, sources, signer)
<1>1. SourcesFromParts(files) = Expected(sources)
  BY ReadsBack DEF IsArtifactOf
<1>2. ASSUME NEW verifier, Opens(files, verifier)
      PROVE  verifier \in {NoKey, signer}
  <2>1. verifier # NoKey =>
          /\ SignaturePath \in DOMAIN files
          /\ files[SignaturePath] = [key |-> verifier, over |-> files[ChecksumPath]]
    BY <1>2 DEF Opens, VerifySignature
  <2>2. verifier # NoKey => signer # NoKey
    BY <2>1 DEF IsArtifactOf
  <2>3. verifier # NoKey => files[SignaturePath] = [key |-> signer, over |-> Checksums(sources)]
    BY <2>2 DEF IsArtifactOf
  <2>4. verifier # NoKey => files[SignaturePath].key = verifier /\ files[SignaturePath].key = signer
    BY <2>1, <2>3
  <2> QED
    BY <2>4
<1> QED
  BY <1>1, <1>2 DEF Faithful

(* One file of it altered: the checksums tell, or nothing of what is read  *)
(* back was in it.                                                         *)
LEMMA AlteredFaithful ==
    ASSUME NEW whole, NEW sources, NEW signer, IsArtifactOf(whole, sources, signer),
           NEW path \in DOMAIN whole, NEW data, data # whole[path],
           path = SignaturePath => data.key = signer
    PROVE  Faithful([whole EXCEPT ![path] = data], sources, signer)
<1> DEFINE files == [whole EXCEPT ![path] = data]
<1>1. /\ DOMAIN files = DOMAIN whole /\ files[path] = data
      /\ \A other \in DOMAIN whole \ {path} : files[other] = whole[other]
  OBVIOUS
<1>2. SignaturePath \in DOMAIN whole => signer # NoKey
  BY DEF IsArtifactOf
<1>3. CASE path \in Items(sources) \cup {ManifestPath}
  <2>1. ChecksumPath \in DOMAIN whole \ {path} /\ whole[ChecksumPath] = Checksums(sources)
    BY <1>3 DEF IsArtifactOf
  <2>2. path \in DOMAIN Checksums(sources) /\ Checksums(sources)[path] = whole[path]
    BY <1>3 DEF IsArtifactOf
  <2> HIDE DEF files
  <2>3. ~VerifyChecksums(files)
    BY <1>1, <2>1, <2>2 DEF VerifyChecksums
  <2> QED
    BY <2>3 DEF Faithful, Opens, files
<1>4. CASE path \in {ChecksumPath, SignaturePath}
  <2>1. /\ ManifestPath \in DOMAIN whole \ {path}
        /\ Items(sources) \subseteq DOMAIN whole \ {path}
        /\ whole[ManifestPath] = Manifest(sources)
        /\ \A part \in Items(sources) : whole[part] = PartFiles(sources)[part]
    BY <1>4 DEF IsArtifactOf
  <2>2. SourcesFromParts(files) = Expected(sources)
    <3>1. /\ files[ManifestPath] = Manifest(sources)
          /\ \A part \in Items(sources) : files[part] = PartFiles(sources)[part]
      BY <1>1, <2>1
    <3> HIDE DEF files
    <3> QED
      BY <3>1, ReadsBack
  <2>3. SignaturePath \in DOMAIN whole => files[SignaturePath].key = signer
    <3>1. ASSUME SignaturePath \in DOMAIN whole, path = ChecksumPath
          PROVE  files[SignaturePath].key = signer
      <4>1. files[SignaturePath] = [key |-> signer, over |-> Checksums(sources)]
        BY <1>1, <1>2, <3>1 DEF IsArtifactOf
      <4> HIDE DEF files
      <4> QED
        BY <4>1
    <3> QED
      BY <1>1, <1>4, <3>1
  <2> HIDE DEF files
  <2>4. ASSUME NEW verifier, Opens(files, verifier)
        PROVE  verifier \in {NoKey, signer}
    <3>1. verifier # NoKey =>
            /\ SignaturePath \in DOMAIN files
            /\ files[SignaturePath] = [key |-> verifier, over |-> files[ChecksumPath]]
      BY <2>4 DEF Opens, VerifySignature
    <3>2. verifier # NoKey => files[SignaturePath].key = verifier
      BY <3>1
    <3> QED
      BY <1>1, <2>3, <3>1, <3>2
  <2> QED
    BY <2>2, <2>4 DEF Faithful, files
<1> QED
  BY <1>3, <1>4 DEF IsArtifactOf

(* One file of it lost.                                                    *)
LEMMA LostFaithful ==
    ASSUME NEW whole, NEW sources, NEW signer, IsArtifactOf(whole, sources, signer),
           NEW path \in DOMAIN whole
    PROVE  /\ Faithful(Without(whole, path), sources, signer)
           /\ Without(whole, path) # << >>
<1> DEFINE files == Without(whole, path)
<1>1. /\ DOMAIN files = DOMAIN whole \ {path}
      /\ \A other \in DOMAIN files : files[other] = whole[other]
  BY DEF Without
<1>2. files # << >>
  <2>1. DOMAIN files # {}
    BY <1>1 DEF IsArtifactOf
  <2> QED
    BY <2>1
<1>3. CASE path \in Items(sources)
  <2>1. /\ ChecksumPath \in DOMAIN files /\ whole[ChecksumPath] = Checksums(sources)
        /\ path \in DOMAIN Checksums(sources)
    BY <1>1, <1>3 DEF IsArtifactOf
  <2> HIDE DEF files
  <2>2. ~VerifyChecksums(files)
    BY <1>1, <2>1 DEF VerifyChecksums
  <2> QED
    BY <1>2, <2>2 DEF Faithful, Opens, files
<1>4. CASE path \in {ManifestPath, ChecksumPath}
  <2> HIDE DEF files
  <2>1. ~({ManifestPath, ChecksumPath} \subseteq DOMAIN files)
    BY <1>1, <1>4
  <2> QED
    BY <1>2, <2>1 DEF Faithful, Opens, files
<1>5. CASE path = SignaturePath
  <2>1. /\ files[ManifestPath] = Manifest(sources)
        /\ \A part \in Items(sources) : files[part] = PartFiles(sources)[part]
    BY <1>1, <1>5 DEF IsArtifactOf
  <2>2. SignaturePath \notin DOMAIN files
    BY <1>1, <1>5
  <2> HIDE DEF files
  <2>3. SourcesFromParts(files) = Expected(sources)
    BY <2>1, ReadsBack
  <2> QED
    BY <1>2, <2>2, <2>3 DEF Faithful, Opens, VerifySignature, files
<1> QED
  BY <1>3, <1>4, <1>5 DEF IsArtifactOf

(* Whatever is damaged, there is still an artifact, and it is faithful.     *)
LEMMA DamageFaithful ==
    ASSUME ConfigInv, Damage
    PROVE  archive' # << >> /\ Faithful(archive', origin.sources, origin.signer)
<1> DEFINE sources == origin.sources
           signer == origin.signer
<1>1. IsArtifactOf(archive, sources, signer)
  <2>1. archive = Assemble(sources, signer)
    BY DEF ConfigInv, ArchiveStands, Damage
  <2>2. IsKnown(sources)
    BY DEF ConfigInv, FilesStand, IsKnown
  <2> QED
    BY <2>1, <2>2, Assembled
<1> HIDE DEF sources, signer
<1>2. CASE \E path \in DOMAIN archive : \E data \in Altered(path) :
             archive' = [archive EXCEPT ![path] = data]
  <2>1. PICK path \in DOMAIN archive : \E data \in Altered(path) :
               archive' = [archive EXCEPT ![path] = data]
    BY <1>2
  <2>2. PICK data \in Altered(path) : archive' = [archive EXCEPT ![path] = data]
    BY <2>1
  <2>3. data # archive[path]
    BY DEF Altered
  <2>4. ASSUME path = SignaturePath PROVE data.key = signer
    <3>1. archive[path] = [key |-> signer, over |-> Checksums(sources)]
      BY <1>1, <2>4 DEF IsArtifactOf
    <3>2. data = [archive[path] EXCEPT !.over = Garbage]
      <4>1. SignaturePath # ManifestPath /\ SignaturePath # ChecksumPath
        BY <1>1 DEF IsArtifactOf
      <4> QED
        BY <2>4, <4>1 DEF Altered, Alterations
    <3> QED
      BY <3>1, <3>2
  <2>5. DOMAIN archive' # {}
    BY <2>2
  <2>6. Faithful([archive EXCEPT ![path] = data], sources, signer)
    BY <1>1, <2>3, <2>4, AlteredFaithful
  <2> QED
    BY <2>2, <2>5, <2>6 DEF sources, signer
<1>3. CASE \E path \in DOMAIN archive : archive' = Without(archive, path)
  BY <1>1, <1>3, LostFaithful DEF sources, signer
<1>4. CASE archive' = Garbage
  BY <1>4, ArtifactAssumption DEF Faithful, Opens, Unpacks
<1> QED
  BY <1>2, <1>3, <1>4 DEF Damage

-----------------------------------------------------------------------------
(* What a machine comes with.                                              *)
LEMMA MachineFacts ==
    /\ MaxEdits \in Nat
    /\ \A machine \in Machines :
         /\ machine.ports \in Seq([name : STRING \ {""}, mac : STRING])
         /\ FilesAreTexts(machine.disk)
         /\ \A path \in DOMAIN machine.disk : path.subsystem \in Subsystems
<1>1. MaxEdits \in Nat
  BY ConfigAssumption
<1>2. ASSUME NEW machine \in Machines, NEW path \in DOMAIN machine.disk
      PROVE  IsText(path, machine.disk[path])
  <2>1. CASE path = RolesPath
    BY <1>2, <2>1, ConfigAssumption DEF IsText
  <2>2. CASE path # RolesPath
    <3>1. machine.disk[path] \in Seq(Words)
      BY <1>2, <2>2, ConfigAssumption
    <3>2. Words \subseteq AnyWords
      BY WordTyped
    <3> QED
      BY <2>2, <3>1, <3>2, SeqMonotonic DEF IsText
  <2> QED
    BY <2>1, <2>2
<1>3. \A machine \in Machines :
        /\ machine.ports \in Seq([name : STRING \ {""}, mac : STRING])
        /\ \A path \in DOMAIN machine.disk : path.subsystem \in Subsystems
  BY ConfigAssumption
<1> QED
  BY <1>1, <1>2, <1>3 DEF FilesAreTexts

LEMMA InitEstablishes == Init => ConfigInv
<1> SUFFICES ASSUME Init PROVE ConfigInv
  OBVIOUS
<1> USE DEF Init, Closed, NotOpened
<1>1. PICK machine \in Machines : disk = machine.disk /\ ports = machine.ports
  OBVIOUS
<1>2. TypeOK
  <2>1. \A path \in DOMAIN disk : path.subsystem \in Subsystems
    BY <1>1, MachineFacts
  <2>2. DOMAIN screen.rows = {}
    OBVIOUS
  <2>3. edits \in 0 .. MaxEdits
    <3>1. MaxEdits \in Nat /\ edits = 0
      BY MachineFacts
    <3> HIDE DEF Init
    <3> QED
      BY <3>1
  <2> QED
    BY <1>1, <2>1, <2>2, <2>3 DEF TypeOK
<1>3. Shapes
  BY DEF Shapes
<1>4. ArchiveStands
  BY DEF ArchiveStands
<1>5. FilesStand
  <2>1. DOMAIN origin.sources = {} /\ Items(origin.sources) = {}
    BY DEF Items
  <2>2. \A path \in DOMAIN disk : path.subsystem \in Subsystems
    BY <1>1, MachineFacts
  <2> HIDE DEF Init
  <2> QED
    BY <1>1, <2>1, <2>2 DEF FilesStand, TunnelsStripped
<1> QED
  BY <1>2, <1>3, <1>4, <1>5 DEF ConfigInv

(* The keys of the wizard, until the write, change nothing but the screen. *)
LEMMA ScreenKeeps ==
    ASSUME ConfigInv, archiveVars' = archiveVars, restoreVars' = restoreVars
    PROVE  /\ ArchiveStands'
           /\ disk' = disk => FilesStand'
  BY DEF ConfigInv, ArchiveStands, FilesStand, TunnelsStripped, archiveVars, restoreVars

(* A row of the selection.                                                 *)
IsRow(row) == /\ row = [name |-> row.name, mac |-> row.mac,
                        role |-> row.role, byMac |-> row.byMac]
              /\ row.role \in Roles
              /\ row.byMac => row.mac # ""

LEMMA RolledRow ==
    ASSUME NEW row, IsRow(row), NEW role \in Roles
    PROVE  IsRow([row EXCEPT !.role = role])
<1>1. PICK name, mac, old, byMac :
             row = [name |-> name, mac |-> mac, role |-> old, byMac |-> byMac]
  BY DEF IsRow
<1>2. [row EXCEPT !.role = role] =
        [name |-> name, mac |-> mac, role |-> role, byMac |-> byMac]
  BY <1>1
<1>3. row.byMac = byMac /\ row.mac = mac
  BY <1>1
<1> QED
  BY <1>2, <1>3 DEF IsRow

LEMMA PinnedRow ==
    ASSUME NEW row, IsRow(row), row.mac # "", NEW flag
    PROVE  IsRow([row EXCEPT !.byMac = flag])
<1>1. PICK name, mac, role, old :
             row = [name |-> name, mac |-> mac, role |-> role, byMac |-> old]
  BY DEF IsRow
<1>2. /\ DOMAIN row = {"name", "mac", "role", "byMac"}
      /\ row.name = name /\ row.mac = mac /\ row.role = role
  BY <1>1
<1>3. [row EXCEPT !.byMac = flag] =
        [name |-> name, mac |-> mac, role |-> role, byMac |-> flag]
  <2> DEFINE left == [row EXCEPT !.byMac = flag]
             right == [name |-> name, mac |-> mac, role |-> role, byMac |-> flag]
  <2>1. /\ left = [x \in DOMAIN row |-> left[x]] /\ DOMAIN left = DOMAIN row
        /\ left["name"] = name /\ left["mac"] = mac /\ left["role"] = role
        /\ left["byMac"] = flag
    BY <1>1, <1>2
  <2>2. /\ right = [x \in DOMAIN row |-> right[x]]
        /\ right["name"] = name /\ right["mac"] = mac /\ right["role"] = role
        /\ right["byMac"] = flag
    BY <1>2
  <2> HIDE DEF left, right
  <2>3. \A x \in DOMAIN row : left[x] = right[x]
    BY <1>2, <2>1, <2>2
  <2>4. left = right
    BY <2>1, <2>2, <2>3, Zenon
  <2> QED
    BY <2>4 DEF left, right
<1> QED
  BY <1>2, <1>3 DEF IsRow

LEMMA WizardStep == ConfigInv /\ Wizard => ConfigInv'
<1> SUFFICES ASSUME ConfigInv, Wizard PROVE ConfigInv'
  OBVIOUS
<1> USE DEF ConfigInv
<1>1. ports' = ports /\ archiveVars' = archiveVars /\ restoreVars' = restoreVars
  BY DEF Wizard, OpenWizard, SetRole, TogglePin, BuildPreview, BackToSelect,
         WriteRoles, CloseWizard, OnlyScreen
<1>2. edits' \in 0 .. MaxEdits
  <2>1. edits \in 0 .. MaxEdits /\ MaxEdits \in Nat
    BY MachineFacts DEF TypeOK
  <2>2. edits' = edits \/ (edits < MaxEdits /\ edits' = edits + 1)
    BY DEF Wizard, OpenWizard, EditsAllowed, SetRole, TogglePin, BuildPreview,
           BackToSelect, WriteRoles, CloseWizard, OnlyScreen
  <2> QED
    BY <2>1, <2>2
<1>3. ArchiveStands'
  BY <1>1, ScreenKeeps
<1>4. FilesStand'
  <2>1. CASE WriteRoles
    <3>1. /\ DOMAIN disk' = DOMAIN disk \cup {RolesPath}
          /\ \A path \in DOMAIN disk \ {RolesPath} : disk'[path] = disk[path]
      BY <2>1 DEF WriteRoles, With
    <3>2. RolesPath.subsystem \in Subsystems
      BY DEF RolesPath, Path, Subsystems
    <3> QED
      BY <1>1, <3>1, <3>2 DEF FilesStand, TunnelsStripped, archiveVars
  <2>2. CASE disk' = disk
    BY <1>1, <2>2, ScreenKeeps
  <2> QED
    BY <2>1, <2>2 DEF Wizard, OpenWizard, SetRole, TogglePin, BuildPreview,
                      BackToSelect, CloseWizard, OnlyScreen
<1>5. /\ screen'.step \in {"closed", "select", "writeConfirm", "written"}
      /\ screen' = [step |-> screen'.step, rows |-> screen'.rows,
                    prev |-> screen'.prev, content |-> screen'.content]
  <2> USE DEF Shapes, TypeOK
  <2>1. CASE OpenWizard
    BY <2>1 DEF OpenWizard, Closed
  <2>2. CASE SetRole
    <3>1. PICK i \in DOMAIN screen.rows, role \in Roles :
                 screen' = [screen EXCEPT !.rows[i].role = role]
      BY <2>2 DEF SetRole
    <3> QED
      BY <3>1
  <2>3. CASE TogglePin
    <3>1. PICK i \in DOMAIN screen.rows :
                 screen' = [screen EXCEPT !.rows[i].byMac = ~@]
      BY <2>3 DEF TogglePin
    <3> QED
      BY <3>1
  <2>4. CASE BuildPreview
    BY <2>4 DEF BuildPreview
  <2>5. CASE BackToSelect \/ WriteRoles
    BY <2>5 DEF BackToSelect, WriteRoles
  <2>6. CASE CloseWizard
    BY <2>6 DEF CloseWizard, Closed
  <2> QED
    BY <2>1, <2>2, <2>3, <2>4, <2>5, <2>6 DEF Wizard
<1>6. /\ screen'.rows = [i \in DOMAIN screen'.rows |-> screen'.rows[i]]
      /\ \A i \in DOMAIN screen'.rows : IsRow(screen'.rows[i])
  <2>1. /\ screen.rows = [i \in DOMAIN screen.rows |-> screen.rows[i]]
        /\ \A i \in DOMAIN screen.rows : IsRow(screen.rows[i])
    BY DEF Shapes, TypeOK, IsRow
  <2>2. CASE OpenWizard
    <3>1. screen'.rows = Seeds(RolesText(disk))
      BY <2>2 DEF OpenWizard, Closed
    <3>2. ASSUME NEW port, NEW conf PROVE IsRow(Seed(port, conf))
      BY DEF Seed, Row, Lists, Roles, IsRow
    <3> QED
      BY <3>1, <3>2 DEF Seeds
  <2>3. CASE SetRole
    <3>1. PICK i \in DOMAIN screen.rows, role \in Roles :
                 screen' = [screen EXCEPT !.rows[i].role = role]
      BY <2>3 DEF SetRole
    <3> DEFINE row == [screen.rows[i] EXCEPT !.role = role]
    <3>2. screen'.rows = [screen.rows EXCEPT ![i] = row]
      BY <3>1 DEF Shapes
    <3>3. IsRow(row)
      BY <2>1, RolledRow
    <3> HIDE DEF row
    <3> QED
      BY <2>1, <3>2, <3>3
  <2>4. CASE TogglePin
    <3>1. PICK i \in DOMAIN screen.rows :
                 /\ screen.rows[i].mac # ""
                 /\ screen' = [screen EXCEPT !.rows[i].byMac = ~@]
      BY <2>4 DEF TogglePin
    <3> DEFINE row == [screen.rows[i] EXCEPT !.byMac = ~@]
    <3>2. screen'.rows = [screen.rows EXCEPT ![i] = row]
      BY <3>1 DEF Shapes
    <3>3. IsRow(row)
      <4>1. IsRow(screen.rows[i])
        BY <2>1
      <4>2. \A flag : IsRow([screen.rows[i] EXCEPT !.byMac = flag])
        BY <3>1, <4>1, PinnedRow
      <4> QED
        BY <4>2, Zenon
    <3> HIDE DEF row
    <3> QED
      BY <2>1, <3>2, <3>3
  <2>5. CASE BuildPreview \/ BackToSelect \/ WriteRoles
    <3>1. screen'.rows = screen.rows
      BY <2>5 DEF BuildPreview, BackToSelect, WriteRoles, Shapes
    <3> QED
      BY <2>1, <3>1
  <2>6. CASE CloseWizard
    BY <2>6 DEF CloseWizard, Closed
  <2> QED
    BY <2>2, <2>3, <2>4, <2>5, <2>6 DEF Wizard
<1>7. Shapes'
  BY <1>1, <1>5, <1>6 DEF Shapes, restoreVars, IsRow
<1>8. TypeOK'
  <2>1. \A path \in DOMAIN disk' : path.subsystem \in Subsystems
    BY <1>4 DEF FilesStand
  <2>2. \A i \in DOMAIN screen'.rows :
          /\ screen'.rows[i].role \in Roles
          /\ screen'.rows[i].byMac => screen'.rows[i].mac # ""
    BY <1>6 DEF IsRow
  <2>3. /\ damaged' = damaged /\ opened' = opened /\ restored' = restored
        /\ ports' = ports
    BY <1>1 DEF archiveVars, restoreVars
  <2> QED
    BY <1>2, <1>5, <2>1, <2>2, <2>3 DEF TypeOK
<1> QED
  BY <1>3, <1>4, <1>7, <1>8

(* The types, when neither the machine nor a session of it changes.         *)
LEMMA StaysTyped ==
    ASSUME ConfigInv, UNCHANGED <<disk, ports, wizardVars, restoreVars>>,
           damaged' \in BOOLEAN
    PROVE  TypeOK' /\ Shapes'
<1>1. /\ disk' = disk /\ ports' = ports /\ screen' = screen /\ edits' = edits
      /\ opened' = opened /\ restored' = restored
  BY DEF wizardVars, restoreVars
<1>2. TypeOK'
  BY <1>1 DEF ConfigInv, TypeOK
<1>3. Shapes'
  BY <1>1 DEF ConfigInv, Shapes
<1> QED
  BY <1>2, <1>3

LEMMA ExportStep == ConfigInv /\ Export => ConfigInv'
<1> SUFFICES ASSUME ConfigInv, Export PROVE ConfigInv'
  OBVIOUS
<1> USE DEF ConfigInv
<1> DEFINE sources == CollectSources(disk)
<1>1. PICK signer \in Keys \cup {NoKey} :
             /\ archive' = Assemble(sources, signer)
             /\ origin' = [sources |-> sources, signer |-> signer]
  BY DEF Export
<1>2. DOMAIN sources = DOMAIN disk /\ IsKnown(sources)
  BY DEF CollectSources, IsKnown, TypeOK
<1>3. IsArtifactOf(archive', sources, signer)
  BY <1>1, <1>2, Assembled
<1>4. archive' # << >>
  <2>1. DOMAIN archive' # {}
    BY <1>3 DEF IsArtifactOf
  <2> QED
    BY <2>1
<1>5. TunnelsStripped'
  <2> SUFFICES ASSUME NEW path \in Items(sources), path.subsystem = "wireguard"
               PROVE  ~HasKeys(sources[path])
    <3>1. origin'.sources = sources
      BY <1>1
    <3> HIDE DEF sources
    <3> QED
      BY <3>1 DEF TunnelsStripped
  <2>1. path \in DOMAIN disk \ {RolesPath}
    <3>1. path \in DOMAIN disk
      BY <1>2 DEF Items
    <3>2. RolesPath.subsystem # "wireguard"
      BY DEF RolesPath, Path
    <3> QED
      BY <3>1, <3>2
  <2>2. PICK machine \in Machines :
               path \in DOMAIN machine.disk /\ disk[path] = machine.disk[path]
    BY <2>1 DEF Export, FilesStand
  <2>3. disk[path] \in Seq(AnyWords)
    BY <2>1, <2>2, MachineFacts DEF FilesAreTexts, IsText
  <2>4. sources[path] = StripWireguard(disk[path])
    BY <2>1 DEF CollectSources
  <2> HIDE DEF sources
  <2> QED
    BY <2>3, <2>4, KeysAreStripped
<1> HIDE DEF sources
<1>6. ArchiveStands'
  <2>1. Faithful(archive', sources, signer)
    BY <1>3, UndamagedFaithful
  <2>2. opened.status = "none" /\ opened' = opened /\ restored' = restored
    BY DEF Export, ArchiveStands, restoreVars
  <2> QED
    BY <1>1, <1>4, <2>1, <2>2 DEF ArchiveStands
<1>7. FilesStand'
  BY <1>1, <1>2, <1>4, <1>5 DEF FilesStand, Export, IsKnown
<1>8. damaged' \in BOOLEAN
  BY DEF Export, TypeOK
<1> QED
  BY <1>6, <1>7, <1>8, StaysTyped DEF Export, TypeOK

LEMMA DamageStep == ConfigInv /\ Damage => ConfigInv'
<1> SUFFICES ASSUME ConfigInv, Damage PROVE ConfigInv'
  OBVIOUS
<1>1. archive' # << >> /\ Faithful(archive', origin.sources, origin.signer)
  BY DamageFaithful
<1> USE DEF ConfigInv
<1>2. ArchiveStands'
  BY <1>1 DEF Damage, ArchiveStands, restoreVars
<1>3. FilesStand'
  BY <1>1 DEF Damage, FilesStand, TunnelsStripped
<1>4. damaged' \in BOOLEAN
  BY DEF Damage
<1> QED
  BY <1>2, <1>3, <1>4, StaysTyped DEF Damage

LEMMA TakeToStep == ConfigInv /\ TakeTo => ConfigInv'
<1> SUFFICES ASSUME ConfigInv, TakeTo PROVE ConfigInv'
  OBVIOUS
<1> USE DEF ConfigInv
<1>1. PICK machine \in Machines : disk' = machine.disk /\ ports' = machine.ports
  BY DEF TakeTo
<1>2. \A path \in DOMAIN disk' : path.subsystem \in Subsystems
  BY <1>1, MachineFacts
<1>3. /\ screen' = screen /\ edits' = edits /\ archive' = archive /\ origin' = origin
      /\ damaged' = damaged /\ opened' = opened /\ restored' = restored
  BY DEF TakeTo, wizardVars, archiveVars, restoreVars
<1>4. opened.missing = {} /\ archive # << >>
  BY DEF TakeTo, ArchiveStands
<1>5. ArchiveStands'
  BY <1>3 DEF ArchiveStands
<1>6. FilesStand'
  BY <1>2, <1>3, <1>4 DEF FilesStand, TunnelsStripped
<1> QED
  BY <1>1, <1>2, <1>3, <1>4, <1>5, <1>6 DEF Shapes, TypeOK

LEMMA OpenStep == ConfigInv /\ OpenArtifact => ConfigInv'
<1> SUFFICES ASSUME ConfigInv, OpenArtifact PROVE ConfigInv'
  OBVIOUS
<1> USE DEF ConfigInv
<1> DEFINE sources == SourcesFromParts(archive)
           missing == MissingRoleDevices(RolesText(sources), Present)
<1>1. PICK verifier \in Keys \cup {NoKey} :
             opened' = IF Opens(archive, verifier)
                       THEN [status |-> "accepted", sources |-> sources,
                             verifier |-> verifier, agreed |-> FALSE,
                             missing |-> missing]
                       ELSE [NotOpened EXCEPT !.status = "refused"]
  BY DEF OpenArtifact
<1>2. missing \cap Present = {}
  BY DEF MissingRoleDevices
<1>3. /\ disk' = disk /\ ports' = ports /\ screen' = screen /\ edits' = edits
      /\ archive' = archive /\ origin' = origin /\ damaged' = damaged
      /\ restored' = restored
  BY DEF OpenArtifact, wizardVars, archiveVars
<1>4. archive # << >> /\ restored = {}
  BY DEF OpenArtifact, ArchiveStands
<1>5. Opens(archive, verifier) =>
        /\ sources = Expected(origin.sources)
        /\ verifier \in {NoKey, origin.signer}
  BY <1>1, <1>4 DEF ArchiveStands, Faithful
<1> HIDE DEF sources, missing
<1>6. /\ opened'.status \in {"accepted", "refused"} /\ opened'.agreed = FALSE
      /\ opened'.missing \cap Present = {}
      /\ opened' = [status |-> opened'.status, sources |-> opened'.sources,
                    verifier |-> opened'.verifier, missing |-> opened'.missing,
                    agreed |-> opened'.agreed]
      /\ opened'.status = "accepted" =>
           /\ opened'.sources = Expected(origin.sources)
           /\ opened'.verifier \in {NoKey, origin.signer}
      /\ opened'.status # "accepted" => opened'.missing = {}
  <2>1. CASE Opens(archive, verifier)
    BY <1>1, <1>2, <1>5, <2>1
  <2>2. CASE ~Opens(archive, verifier)
    BY <1>1, <2>2 DEF NotOpened
  <2> QED
    BY <2>1, <2>2
<1>7. ArchiveStands'
  BY <1>3, <1>4, <1>6 DEF ArchiveStands
<1>8. FilesStand'
  BY <1>3 DEF FilesStand, TunnelsStripped
<1>9. Shapes'
  BY <1>3, <1>6 DEF Shapes
<1>10. TypeOK'
  <2>1. opened'.missing \cap {ports[i].name : i \in DOMAIN ports} = {}
    BY <1>3, <1>4, <1>6 DEF TypeOK, Present
  <2>2. opened'.status \in {"none", "refused", "accepted"} /\ opened'.agreed \in BOOLEAN
    BY <1>3, <1>4, <1>6 DEF TypeOK
  <2> QED
    BY <1>3, <1>4, <2>1, <2>2 DEF TypeOK
<1> QED
  BY <1>7, <1>8, <1>9, <1>10

LEMMA RestoreStep == ConfigInv /\ Restore => ConfigInv'
<1> SUFFICES ASSUME ConfigInv, Restore PROVE ConfigInv'
  OBVIOUS
<1> USE DEF ConfigInv
<1>1. PICK items \in Written, agreed \in BOOLEAN :
             /\ DOMAIN disk' = DOMAIN disk \cup items
             /\ restored' = items
             /\ opened' = [opened EXCEPT !.agreed = agreed]
  BY DEF Restore
<1>2. items \subseteq Items(opened.sources)
  BY DEF Written
<1>3. /\ ports' = ports /\ screen' = screen /\ edits' = edits
      /\ archive' = archive /\ origin' = origin /\ damaged' = damaged
  BY DEF Restore, wizardVars, archiveVars
<1>4. /\ opened.status = "accepted" /\ archive # << >>
      /\ opened.sources = Expected(origin.sources)
  BY DEF Restore, ArchiveStands
<1>5. \A path \in DOMAIN disk' : path.subsystem \in Subsystems
  <2>1. items \subseteq DOMAIN origin.sources
    BY <1>2, <1>4 DEF Expected, Items
  <2> QED
    BY <1>1, <2>1 DEF FilesStand
<1>6. /\ opened'.status = opened.status /\ opened'.sources = opened.sources
      /\ opened'.verifier = opened.verifier /\ opened'.missing = opened.missing
      /\ opened'.agreed = agreed
      /\ opened' = [status |-> opened'.status, sources |-> opened'.sources,
                    verifier |-> opened'.verifier, missing |-> opened'.missing,
                    agreed |-> opened'.agreed]
  BY <1>1 DEF Shapes
<1>7. ArchiveStands'
  BY <1>3, <1>4, <1>6 DEF ArchiveStands
<1>8. FilesStand'
  BY <1>3, <1>4, <1>5 DEF FilesStand, TunnelsStripped
<1>9. Shapes'
  BY <1>3, <1>6 DEF Shapes
<1>10. TypeOK'
  <2>1. restored' \subseteq Items(opened'.sources)
    BY <1>1, <1>2, <1>6
  <2> QED
    BY <1>3, <1>5, <1>6, <2>1 DEF TypeOK
<1> QED
  BY <1>7, <1>8, <1>9, <1>10

LEMMA CloseStep == ConfigInv /\ CloseRestore => ConfigInv'
<1> SUFFICES ASSUME ConfigInv, CloseRestore PROVE ConfigInv'
  OBVIOUS
<1> USE DEF ConfigInv
<1>1. /\ disk' = disk /\ ports' = ports /\ screen' = screen /\ edits' = edits
      /\ archive' = archive /\ origin' = origin /\ damaged' = damaged
      /\ opened' = NotOpened /\ restored' = {}
  BY DEF CloseRestore, wizardVars, archiveVars
<1>2. ArchiveStands' /\ FilesStand'
  BY <1>1 DEF ArchiveStands, FilesStand, TunnelsStripped, NotOpened
<1> QED
  BY <1>1, <1>2 DEF Shapes, TypeOK, NotOpened

LEMMA NextStep == ConfigInv /\ [Next]_vars => ConfigInv'
<1> SUFFICES ASSUME ConfigInv, [Next]_vars PROVE ConfigInv'
  OBVIOUS
<1>1. CASE UNCHANGED vars
  <2>1. /\ disk' = disk /\ ports' = ports /\ screen' = screen /\ edits' = edits
        /\ archive' = archive /\ origin' = origin /\ damaged' = damaged
        /\ opened' = opened /\ restored' = restored
    BY <1>1 DEF vars
  <2>2. TypeOK' /\ Shapes'
    BY <2>1, StaysTyped DEF ConfigInv, TypeOK, wizardVars, restoreVars
  <2>3. ArchiveStands' /\ FilesStand'
    BY <2>1, ScreenKeeps DEF archiveVars, restoreVars
  <2> QED
    BY <2>2, <2>3 DEF ConfigInv
<1> QED
  BY <1>1, WizardStep, ExportStep, DamageStep, TakeToStep, OpenStep, RestoreStep,
     CloseStep DEF Next

LEMMA ConfigInvariant == Spec => []ConfigInv
  BY InitEstablishes, NextStep, PTL DEF Spec

-----------------------------------------------------------------------------
(* What the wizard's rows are saved as.                                    *)
Shown == Assignment(screen.rows, ParseRolesConf(screen.prev).extras)

(* The rows are those of ports; what was previewed, and then written, is   *)
(* what they show; no wizard is open once there is an artifact.            *)
ScreenStands ==
    /\ \E n \in Nat : DOMAIN screen.rows = 1 .. n
    /\ \A i \in DOMAIN screen.rows :
         screen.rows[i].name \in STRING /\ screen.rows[i].mac \in STRING
    /\ screen.prev \in Seq(Lines)
    /\ archive # << >> => screen.step = "closed"
    /\ screen.step \in {"writeConfirm", "written"} =>
         Shown \in Confs /\ screen.content = RenderRolesConf(Shown)
    /\ screen.step = "written" =>
         RolesPath \in DOMAIN disk /\ disk[RolesPath] = screen.content

(* Every file is a text, and a roles.conf in an artifact is what a restore *)
(* would write of it, or is one it refuses.                                *)
TextsStand ==
    /\ FilesAreTexts(disk)
    /\ FilesAreTexts(origin.sources)
    /\ RolesPath \in DOMAIN origin.sources /\ IsSafe(origin.sources[RolesPath]) =>
         SafeRolesConf(origin.sources[RolesPath]) = origin.sources[RolesPath]

(* What a restore has written is still on the disk, and was agreed to.     *)
RestoreStands ==
    /\ opened.status = "accepted" =>
         opened.missing = MissingRoleDevices(RolesText(opened.sources), Present)
    /\ \A path \in restored : path \in DOMAIN disk /\ disk[path] = ToWrite(path)
    /\ RolesPath \in restored => IsSafe(opened.sources[RolesPath])
    /\ restored # {} => (opened.agreed <=> opened.missing # {})

TextInv == ScreenStands /\ TextsStand /\ RestoreStands

(* The names and the MACs the rows of a role are listed by.                *)
AreRows(rows, n) ==
    /\ n \in Nat /\ rows = [i \in 1 .. n |-> rows[i]]
    /\ \A i \in 1 .. n : rows[i].name \in STRING /\ rows[i].mac \in STRING

LEMMA ListedTyped ==
    ASSUME NEW rows, NEW n, AreRows(rows, n), NEW role
    PROVE  /\ ListedNames(rows, role) \in Seq(STRING)
           /\ ListedMacs(rows, role) \in Seq(STRING)
           /\ \A x : x \in ToSet(ListedNames(rows, role)) <=>
                \E i \in 1 .. n :
                   rows[i].role = role /\ ~rows[i].byMac /\ x = rows[i].name
           /\ \A x : x \in ToSet(ListedMacs(rows, role)) <=>
                \E i \in 1 .. n :
                   rows[i].role = role /\ rows[i].byMac /\ x = rows[i].mac
<1> DEFINE T == {rows[i] : i \in 1 .. n}
           ByName(row) == row.role = role /\ ~row.byMac
           ByMac(row) == row.role = role /\ row.byMac
           names == [row \in T |-> IF ByName(row) THEN <<row.name>> ELSE << >>]
           macs == [row \in T |-> IF ByMac(row) THEN <<row.mac>> ELSE << >>]
<1>1. /\ DOMAIN rows = 1 .. n /\ \A i \in 1 .. n : rows[i] \in T
      /\ \A row \in T : row.name \in STRING /\ row.mac \in STRING
      /\ n \in Nat /\ rows = [i \in 1 .. n |-> rows[i]]
  BY DEF AreRows
<1>2. ListedNames(rows, role) = Gathered(rows, names)
  <2>1. Pieces(rows, names)
          = [i \in 1 .. n |-> IF ByName(rows[i]) THEN <<rows[i].name>> ELSE << >>]
    BY <1>1 DEF Pieces
  <2> QED
    BY <1>1, <2>1 DEF Gathered, ListedNames
<1>3. ListedMacs(rows, role) = Gathered(rows, macs)
  <2>1. Pieces(rows, macs)
          = [i \in 1 .. n |-> IF ByMac(rows[i]) THEN <<rows[i].mac>> ELSE << >>]
    BY <1>1 DEF Pieces
  <2> QED
    BY <1>1, <2>1 DEF Gathered, ListedMacs
<1> HIDE DEF T
<1>4. rows \in Seq(T)
  BY <1>1
<1>5. /\ \A x \in STRING : <<x>> \in Seq(STRING)
      /\ << >> \in Seq(STRING)
  <2>1. ASSUME NEW S, NEW x \in S PROVE <<x>> \in Seq(S)
    OBVIOUS
  <2>2. << >> \in Seq(STRING)
    BY EmptySeq
  <2> QED
    BY <2>1, <2>2
<1>6. IsPiece(names, T, STRING) /\ IsPiece(macs, T, STRING)
  BY <1>1, <1>5 DEF IsPiece
<1>7. (\A x, y : x \in ToSet(<<y>>) <=> x = y) /\ \A x : x \notin ToSet(<< >>)
  BY DEF ToSet
<1>8. \A i \in 1 .. n :
        /\ names[rows[i]] = IF ByName(rows[i]) THEN <<rows[i].name>> ELSE << >>
        /\ macs[rows[i]] = IF ByMac(rows[i]) THEN <<rows[i].mac>> ELSE << >>
  BY <1>1
<1> HIDE DEF names, macs
<1>9. /\ Gathered(rows, names) \in Seq(STRING)
      /\ \A x : x \in ToSet(Gathered(rows, names)) <=>
                  \E i \in DOMAIN rows : x \in ToSet(names[rows[i]])
  BY <1>4, <1>6, PiecesTyped, GatheredMembers
<1>10. /\ Gathered(rows, macs) \in Seq(STRING)
       /\ \A x : x \in ToSet(Gathered(rows, macs)) <=>
                   \E i \in DOMAIN rows : x \in ToSet(macs[rows[i]])
  BY <1>4, <1>6, PiecesTyped, GatheredMembers
<1>11. ASSUME NEW x
       PROVE  /\ x \in ToSet(Gathered(rows, names)) <=>
                    \E i \in 1 .. n : ByName(rows[i]) /\ x = rows[i].name
              /\ x \in ToSet(Gathered(rows, macs)) <=>
                    \E i \in 1 .. n : ByMac(rows[i]) /\ x = rows[i].mac
  <2> HIDE DEF ByName, ByMac
  <2>1. ASSUME NEW i \in 1 .. n
        PROVE  x \in ToSet(names[rows[i]]) <=> ByName(rows[i]) /\ x = rows[i].name
    <3>1. CASE ByName(rows[i])
      BY <1>7, <1>8, <3>1
    <3>2. CASE ~ByName(rows[i])
      BY <1>7, <1>8, <3>2
    <3> QED
      BY <3>1, <3>2
  <2>2. ASSUME NEW i \in 1 .. n
        PROVE  x \in ToSet(macs[rows[i]]) <=> ByMac(rows[i]) /\ x = rows[i].mac
    <3>1. CASE ByMac(rows[i])
      BY <1>7, <1>8, <3>1
    <3>2. CASE ~ByMac(rows[i])
      BY <1>7, <1>8, <3>2
    <3> QED
      BY <3>1, <3>2
  <2> QED
    BY <1>1, <1>9, <1>10, <2>1, <2>2
<1> QED
  BY <1>2, <1>3, <1>9, <1>10, <1>11

(* An assignment that validates is one a file can hold.                    *)
LEMMA ShownTyped ==
    ASSUME ConfigInv, ScreenStands, Validates(Shown)
    PROVE  Shown \in Confs
<1> DEFINE rows == screen.rows
           extras == ParseRolesConf(screen.prev).extras
<1>1. PICK n \in Nat : DOMAIN rows = 1 .. n
  BY DEF ScreenStands
<1>2. AreRows(rows, n)
  <2>1. rows = [i \in DOMAIN rows |-> rows[i]]
    BY DEF ConfigInv, Shapes
  <2> QED
    BY <1>1, <2>1 DEF ScreenStands, AreRows
<1> HIDE DEF rows
<1>3. \A role : /\ ListedNames(rows, role) \in Seq(STRING)
                /\ ListedMacs(rows, role) \in Seq(STRING)
  BY <1>2, ListedTyped
<1>4. extras \in Seq(ExtraLines)
  BY ParseTyped DEF ScreenStands, Confs
<1> HIDE DEF extras
<1> DEFINE wan == ListedMacs(rows, "wan")
           lan == ListedMacs(rows, "lan")
<1>5. Shown = [wanIfs |-> ListedNames(rows, "wan"), wanMacs |-> wan,
               lanIfs |-> ListedNames(rows, "lan"), lanMacs |-> lan,
               extras |-> extras]
  BY DEF Shown, Assignment, rows, extras
<1>6. ToSet(wan \o lan) \subseteq Macs
  BY <1>5 DEF Validates
<1>7. wan \in Seq(STRING) /\ lan \in Seq(STRING)
  BY <1>3
<1> HIDE DEF wan, lan
<1>8. ToSet(wan) \subseteq Macs /\ ToSet(lan) \subseteq Macs
  BY <1>6, <1>7, JoinMembers
<1>9. ASSUME NEW macs \in Seq(STRING), ToSet(macs) \subseteq Macs
      PROVE  macs \in Seq(Plain)
  <2>1. /\ Len(macs) \in Nat /\ DOMAIN macs = 1 .. Len(macs)
        /\ macs = [i \in 1 .. Len(macs) |-> macs[i]]
        /\ \A i \in 1 .. Len(macs) : macs[i] \in STRING
    BY LenProperties, ElementOfSeq
  <2>2. \A i \in 1 .. Len(macs) : macs[i] \in Macs
    BY <1>9, <2>1 DEF ToSet
  <2>3. \A i \in 1 .. Len(macs) : macs[i] \in Plain
    BY <2>1, <2>2, RolesAssumption DEF Plain
  <2> QED
    BY <2>1, <2>3
<1>10. wan \in Seq(Plain) /\ lan \in Seq(Plain)
  BY <1>7, <1>8, <1>9
<1> QED
  BY <1>3, <1>4, <1>5, <1>10 DEF Confs

(* What is collected of texts is texts, and of a roles.conf what a restore *)
(* would write, or one it refuses.                                         *)
LEMMA CollectedTyped ==
    ASSUME NEW files, FilesAreTexts(files)
    PROVE  LET sources == CollectSources(files) IN
           /\ FilesAreTexts(sources)
           /\ RolesPath \in DOMAIN sources /\ IsSafe(sources[RolesPath]) =>
                SafeRolesConf(sources[RolesPath]) = sources[RolesPath]
<1> DEFINE sources == CollectSources(files)
<1>1. DOMAIN sources = DOMAIN files
  BY DEF CollectSources
<1>2. ASSUME RolesPath \in DOMAIN files
      PROVE  /\ sources[RolesPath] \in Seq(Lines)
             /\ IsSafe(sources[RolesPath]) =>
                  SafeRolesConf(sources[RolesPath]) = sources[RolesPath]
  <2>1. files[RolesPath] \in Seq(Lines)
    BY <1>2 DEF FilesAreTexts, IsText
  <2>2. RolesPath.subsystem # "wireguard"
    BY DEF RolesPath, Path
  <2>3. CASE IsSafe(files[RolesPath])
    <3>1. sources[RolesPath] = SafeRolesConf(files[RolesPath])
      BY <1>2, <2>2, <2>3 DEF CollectSources
    <3> QED
      BY <2>1, <3>1, SafeTwice
  <2>4. CASE ~IsSafe(files[RolesPath])
    <3>1. sources[RolesPath] = files[RolesPath]
      BY <1>2, <2>2, <2>4 DEF CollectSources
    <3> QED
      BY <2>1, <2>4, <3>1
  <2> QED
    BY <2>3, <2>4
<1>3. ASSUME NEW path \in DOMAIN files \ {RolesPath}
      PROVE  sources[path] \in Seq(AnyWords)
  <2>1. files[path] \in Seq(AnyWords)
    BY DEF FilesAreTexts, IsText
  <2>2. sources[path] = IF path.subsystem = "wireguard"
                        THEN StripWireguard(files[path]) ELSE files[path]
    BY DEF CollectSources
  <2> QED
    BY <2>1, <2>2, KeysAreStripped
<1> HIDE DEF sources
<1>4. FilesAreTexts(sources)
  BY <1>1, <1>2, <1>3 DEF FilesAreTexts, IsText
<1> QED
  BY <1>1, <1>2, <1>4 DEF sources

(* What is read back of an artifact says what was packed, if for control   *)
(* characters.                                                             *)
LEMMA ExpectedTyped ==
    ASSUME NEW sources, FilesAreTexts(sources), NEW path \in Items(sources)
    PROVE  /\ IsText(path, Expected(sources)[path])
           /\ path = RolesPath => Expected(sources)[path] = sources[path]
           /\ path # RolesPath /\ ~HasKeys(sources[path]) =>
                ~HasKeys(Expected(sources)[path])
           /\ (path # RolesPath => ~HasControls(sources[path])) =>
                Normalized(path, Expected(sources)[path])
                  = Normalized(path, sources[path])
<1> DEFINE text == sources[path]
           part == PartFiles(sources)[path]
<1>1. IsText(path, text)
  BY DEF FilesAreTexts, Items
<1>2. part \in {text, Trimmed(text)} /\ Expected(sources)[path] = Sanitized(path, part)
  BY DEF PartFiles, Expected
<1> HIDE DEF text, part
<1>3. /\ IsText(path, part)
      /\ Normalized(path, part) = Normalized(path, text)
  BY <1>1, <1>2, TrimmedSaysTheSame
<1>4. path # RolesPath =>
        /\ ~HasKeys(text) => ~HasKeys(part)
        /\ ~HasControls(text) => ~HasControls(part)
  <2>1. path # RolesPath => text \in Seq(AnyWords)
    BY <1>1 DEF IsText
  <2>2. path # RolesPath => \A i \in DOMAIN Trimmed(text) :
          i \in DOMAIN text /\ Trimmed(text)[i] = text[i]
    BY <2>1, TrimmedTyped
  <2> QED
    BY <1>2, <2>2 DEF HasKeys, HasControls
<1>5. path = RolesPath => part = text
  BY <1>2, <1>3 DEF Normalized
<1>6. path = RolesPath => Sanitized(path, part) = part
  BY DEF Sanitized
<1>7. /\ IsText(path, Sanitized(path, part))
      /\ path # RolesPath /\ ~HasKeys(part) => ~HasKeys(Sanitized(path, part))
  BY <1>3, SanitizedTyped
<1>8. (path # RolesPath => ~HasControls(part)) =>
        Normalized(path, Sanitized(path, part)) = Normalized(path, part)
  BY <1>3, SanitizedSaysTheSame
<1> QED
  BY <1>2, <1>3, <1>4, <1>5, <1>6, <1>7, <1>8 DEF text

-----------------------------------------------------------------------------
LEMMA TextInit == Init => TextInv
<1> SUFFICES ASSUME Init PROVE TextInv
  OBVIOUS
<1>1. PICK machine \in Machines : disk = machine.disk /\ ports = machine.ports
  BY DEF Init
<1>2. /\ screen.rows = << >> /\ screen.prev = << >> /\ screen.step = "closed"
      /\ origin.sources = << >> /\ opened.status = "none" /\ restored = {}
  BY DEF Init, Closed, NotOpened
<1>3. ScreenStands
  <2>1. DOMAIN screen.rows = 1 .. 0 /\ screen.prev \in Seq(Lines)
    BY <1>2, EmptySeq
  <2> QED
    BY <1>2, <2>1 DEF ScreenStands
<1>4. TextsStand
  <2>1. FilesAreTexts(disk)
    BY <1>1, MachineFacts
  <2>2. DOMAIN origin.sources = {}
    BY <1>2
  <2> QED
    BY <2>1, <2>2 DEF TextsStand, FilesAreTexts
<1>5. RestoreStands
  BY <1>2 DEF RestoreStands
<1> QED
  BY <1>3, <1>4, <1>5 DEF TextInv

LEMMA RowsKeepPorts ==
    ASSUME NEW row, IsRow(row), NEW x
    PROVE  /\ [row EXCEPT !.role = x].name = row.name
           /\ [row EXCEPT !.role = x].mac = row.mac
           /\ [row EXCEPT !.byMac = x].name = row.name
           /\ [row EXCEPT !.byMac = x].mac = row.mac
<1>1. DOMAIN row = {"name", "mac", "role", "byMac"}
  BY DEF IsRow
<1> QED
  BY <1>1

(* The wizard's rows are the ports', whatever is pressed.                  *)
LEMMA RowsStay ==
    ASSUME ConfigInv, TextInv, Wizard
    PROVE  /\ \E n \in Nat : DOMAIN screen'.rows = 1 .. n
           /\ \A i \in DOMAIN screen'.rows :
                screen'.rows[i].name \in STRING /\ screen'.rows[i].mac \in STRING
           /\ screen'.prev \in Seq(Lines)
<1>1. /\ \E n \in Nat : DOMAIN screen.rows = 1 .. n
      /\ \A i \in DOMAIN screen.rows :
           screen.rows[i].name \in STRING /\ screen.rows[i].mac \in STRING
      /\ screen.prev \in Seq(Lines)
  BY DEF TextInv, ScreenStands
<1>2. /\ screen = [step |-> screen.step, rows |-> screen.rows,
                   prev |-> screen.prev, content |-> screen.content]
      /\ \A i \in DOMAIN screen.rows : IsRow(screen.rows[i])
  BY DEF ConfigInv, Shapes, TypeOK, IsRow
<1>3. CASE OpenWizard
  <2>1. PICK machine \in Machines : ports = machine.ports
    BY DEF ConfigInv, TypeOK
  <2>2. ports \in Seq([name : STRING \ {""}, mac : STRING])
    BY <2>1, MachineFacts
  <2>3. /\ DOMAIN ports = 1 .. Len(ports) /\ Len(ports) \in Nat
        /\ \A i \in DOMAIN ports : ports[i].name \in STRING /\ ports[i].mac \in STRING
    <3> DEFINE Ports == [name : STRING \ {""}, mac : STRING]
    <3>1. \A port \in Ports : port.name \in STRING /\ port.mac \in STRING
      OBVIOUS
    <3>2. ports \in Seq(Ports)
      BY <2>2
    <3> HIDE DEF Ports
    <3> QED
      BY <3>1, <3>2, LenProperties, ElementOfSeq
  <2>4. \A port, conf : /\ Seed(port, conf).name = port.name
                        /\ Seed(port, conf).mac = port.mac
    BY DEF Seed, Row
  <2>5. screen'.rows = Seeds(RolesText(disk)) /\ screen'.prev = RolesText(disk)
    BY <1>3 DEF OpenWizard, Closed
  <2>6. RolesText(disk) \in Seq(Lines)
    BY EmptySeq DEF TextInv, TextsStand, FilesAreTexts, IsText, RolesText
  <2> QED
    BY <2>3, <2>4, <2>5, <2>6 DEF Seeds
<1>4. CASE SetRole
  <2>1. PICK i \in DOMAIN screen.rows, role \in Roles :
               screen' = [screen EXCEPT !.rows[i].role = role]
    BY <1>4 DEF SetRole
  <2> DEFINE row == [screen.rows[i] EXCEPT !.role = role]
  <2>2. screen'.rows = [screen.rows EXCEPT ![i] = row] /\ screen'.prev = screen.prev
    BY <1>2, <2>1
  <2>3. row.name = screen.rows[i].name /\ row.mac = screen.rows[i].mac
    BY <1>2, RowsKeepPorts
  <2> HIDE DEF row
  <2> QED
    BY <1>1, <2>2, <2>3
<1>5. CASE TogglePin
  <2>1. PICK i \in DOMAIN screen.rows :
               screen' = [screen EXCEPT !.rows[i].byMac = ~@]
    BY <1>5 DEF TogglePin
  <2> DEFINE row == [screen.rows[i] EXCEPT !.byMac = ~@]
  <2>2. screen'.rows = [screen.rows EXCEPT ![i] = row] /\ screen'.prev = screen.prev
    BY <1>2, <2>1
  <2>3. row.name = screen.rows[i].name /\ row.mac = screen.rows[i].mac
    <3>1. \A flag : LET pinned == [screen.rows[i] EXCEPT !.byMac = flag] IN
            pinned.name = screen.rows[i].name /\ pinned.mac = screen.rows[i].mac
      BY <1>2, RowsKeepPorts
    <3> QED
      BY <3>1, Zenon
  <2> HIDE DEF row
  <2> QED
    BY <1>1, <2>2, <2>3
<1>6. CASE BuildPreview \/ BackToSelect \/ WriteRoles
  <2>1. screen'.rows = screen.rows /\ screen'.prev = screen.prev
    BY <1>2, <1>6 DEF BuildPreview, BackToSelect, WriteRoles
  <2> QED
    BY <1>1, <2>1
<1>7. CASE CloseWizard
  <2>1. screen'.rows = << >> /\ screen'.prev = << >>
    BY <1>7 DEF CloseWizard, Closed
  <2>2. DOMAIN screen'.rows = 1 .. 0 /\ << >> \in Seq(Lines)
    BY <2>1, EmptySeq
  <2> QED
    BY <2>1, <2>2
<1> QED
  BY <1>3, <1>4, <1>5, <1>6, <1>7 DEF Wizard

(* No wizard is open when anything else happens.                           *)
LEMMA ClosedElsewhere ==
    ASSUME ConfigInv, TextInv,
           Export \/ Damage \/ TakeTo \/ OpenArtifact \/ Restore \/ CloseRestore
    PROVE  screen.step = "closed" /\ screen' = screen
<1>1. archive # << >> => screen.step = "closed"
  BY DEF TextInv, ScreenStands
<1>2. opened.status # "none" => archive # << >>
  BY DEF ConfigInv, ArchiveStands
<1> QED
  BY <1>1, <1>2 DEF Export, Damage, TakeTo, OpenArtifact, Restore, CloseRestore,
                    wizardVars

LEMMA ScreenStep ==
    ASSUME ConfigInv, TextInv, [Next]_vars PROVE ScreenStands'
<1>1. CASE Wizard
  <2>1. /\ \E n \in Nat : DOMAIN screen'.rows = 1 .. n
        /\ \A i \in DOMAIN screen'.rows :
             screen'.rows[i].name \in STRING /\ screen'.rows[i].mac \in STRING
        /\ screen'.prev \in Seq(Lines)
    BY <1>1, RowsStay
  <2>2. /\ screen = [step |-> screen.step, rows |-> screen.rows,
                     prev |-> screen.prev, content |-> screen.content]
        /\ archive # << >> => screen.step = "closed"
    BY DEF ConfigInv, Shapes, TextInv, ScreenStands
  <2>3. CASE screen'.step \in {"closed", "select"}
    <3>1. archive' = archive /\ (archive # << >> => screen'.step = "closed")
      BY <1>1, <2>2, <2>3
         DEF Wizard, OpenWizard, SetRole, TogglePin, BuildPreview, BackToSelect,
             WriteRoles, CloseWizard, OnlyScreen, archiveVars, EditsAllowed, Closed
    <3> QED
      BY <2>1, <2>3, <3>1 DEF ScreenStands
  <2>4. CASE BuildPreview
    <3>1. /\ screen' = [screen EXCEPT !.step = "writeConfirm",
                                     !.content = RenderRolesConf(Shown)]
          /\ Validates(Shown) /\ archive' = archive /\ screen.step = "select"
      BY <2>4 DEF BuildPreview, Shown, OnlyScreen, archiveVars
    <3>2. /\ screen'.step = "writeConfirm" /\ screen'.rows = screen.rows
          /\ screen'.prev = screen.prev /\ screen'.content = RenderRolesConf(Shown)
      BY <2>2, <3>1
    <3>3. Shown' = Shown
      BY <3>2 DEF Shown
    <3>4. Shown \in Confs
      BY <3>1, ShownTyped DEF TextInv
    <3> QED
      BY <2>1, <2>2, <3>1, <3>2, <3>3, <3>4 DEF ScreenStands
  <2>5. CASE WriteRoles
    <3>1. /\ screen.step = "writeConfirm" /\ screen'.step = "written"
          /\ screen'.rows = screen.rows /\ screen'.prev = screen.prev
          /\ screen'.content = screen.content /\ archive' = archive
      BY <2>2, <2>5 DEF WriteRoles, archiveVars
    <3>2. RolesPath \in DOMAIN disk' /\ disk'[RolesPath] = screen.content
      BY <2>5 DEF WriteRoles, With
    <3>3. Shown' = Shown
      BY <3>1 DEF Shown
    <3> QED
      BY <2>1, <2>2, <3>1, <3>2, <3>3 DEF TextInv, ScreenStands
  <2>6. screen'.step \in {"closed", "select"} \/ BuildPreview \/ WriteRoles
    <3>1. CASE OpenWizard
      BY <3>1 DEF OpenWizard, Closed
    <3>2. CASE SetRole \/ TogglePin
      BY <2>2, <3>2 DEF SetRole, TogglePin
    <3>3. CASE BackToSelect
      BY <2>2, <3>3 DEF BackToSelect
    <3>4. CASE CloseWizard
      BY <3>4 DEF CloseWizard, Closed
    <3> QED
      BY <1>1, <3>1, <3>2, <3>3, <3>4 DEF Wizard
  <2> QED
    BY <2>3, <2>4, <2>5, <2>6
<1>2. CASE Export \/ Damage \/ TakeTo \/ OpenArtifact \/ Restore \/ CloseRestore
  <2>1. screen.step = "closed" /\ screen' = screen
    BY <1>2, ClosedElsewhere
  <2> QED
    BY <2>1 DEF TextInv, ScreenStands
<1>3. CASE UNCHANGED vars
  <2>1. screen' = screen /\ disk' = disk /\ archive' = archive
    BY <1>3 DEF vars
  <2> QED
    BY <2>1 DEF TextInv, ScreenStands, Shown
<1> QED
  BY <1>1, <1>2, <1>3 DEF Next

(* What a restore reads and what it writes are texts.                      *)
LEMMA OpenedTyped ==
    ASSUME ConfigInv, TextsStand, opened.status = "accepted",
           NEW path \in Items(opened.sources)
    PROVE  /\ opened.sources = Expected(origin.sources)
           /\ path \in Items(origin.sources)
           /\ IsText(path, opened.sources[path]) /\ IsText(path, ToWrite(path))
<1>1. opened.sources = Expected(origin.sources)
  BY DEF ConfigInv, ArchiveStands
<1>2. path \in Items(origin.sources)
  BY <1>1 DEF Expected, Items
<1>3. IsText(path, opened.sources[path])
  BY <1>1, <1>2, ExpectedTyped DEF TextsStand
<1>4. IsText(path, ToWrite(path))
  <2>1. CASE path = RolesPath
    <3>1. opened.sources[RolesPath] \in Seq(Lines)
      BY <1>3, <2>1 DEF IsText
    <3> QED
      BY <2>1, <3>1, SafeTwice DEF ToWrite, IsText
  <2>2. CASE path # RolesPath
    BY <1>3, <2>2 DEF ToWrite
  <2> QED
    BY <2>1, <2>2
<1> QED
  BY <1>1, <1>2, <1>3, <1>4

LEMMA TextsStep ==
    ASSUME ConfigInv, TextInv, [Next]_vars PROVE TextsStand'
<1> USE DEF TextInv
<1>1. CASE WriteRoles
  <2>1. screen.content \in Seq(Lines)
    <3>1. screen.step = "writeConfirm"
      BY <1>1 DEF WriteRoles
    <3>2. Shown \in Confs /\ screen.content = RenderRolesConf(Shown)
      BY <3>1 DEF ScreenStands
    <3> QED
      BY <3>2, ParseRendered
  <2>2. /\ DOMAIN disk' = DOMAIN disk \cup {RolesPath}
        /\ disk'[RolesPath] = screen.content
        /\ \A path \in DOMAIN disk \ {RolesPath} : disk'[path] = disk[path]
    BY <1>1 DEF WriteRoles, With
  <2>3. FilesAreTexts(disk)'
    BY <2>1, <2>2 DEF TextsStand, FilesAreTexts, IsText
  <2>4. origin' = origin
    BY <1>1 DEF WriteRoles, archiveVars
  <2> QED
    BY <2>3, <2>4 DEF TextsStand, FilesAreTexts
<1>2. CASE Export
  <2>1. disk' = disk /\ origin'.sources = CollectSources(disk)
    BY <1>2 DEF Export
  <2>2. FilesAreTexts(disk)
    BY DEF TextsStand
  <2> QED
    BY <2>1, <2>2, CollectedTyped DEF TextsStand
<1>3. CASE TakeTo
  <2>1. PICK machine \in Machines : disk' = machine.disk
    BY <1>3 DEF TakeTo
  <2>2. FilesAreTexts(disk)'
    BY <2>1, MachineFacts
  <2>3. origin' = origin
    BY <1>3 DEF TakeTo, archiveVars
  <2> QED
    BY <2>2, <2>3 DEF TextsStand, FilesAreTexts
<1>4. CASE Restore
  <2>1. PICK items \in Written :
               disk' = [path \in DOMAIN disk \cup items |->
                          IF path \in items THEN ToWrite(path) ELSE disk[path]]
    BY <1>4 DEF Restore
  <2>2. \A path \in items : IsText(path, ToWrite(path))
    <3>1. items \subseteq Items(opened.sources) /\ opened.status = "accepted"
      BY <1>4 DEF Written, Restore
    <3> QED
      BY <3>1, OpenedTyped
  <2>3. FilesAreTexts(disk)'
    BY <2>1, <2>2 DEF TextsStand, FilesAreTexts
  <2>4. origin' = origin
    BY <1>4 DEF Restore, archiveVars
  <2> QED
    BY <2>3, <2>4 DEF TextsStand, FilesAreTexts
<1>5. CASE disk' = disk /\ origin' = origin
  BY <1>5 DEF TextsStand, FilesAreTexts
<1>6. Next \/ UNCHANGED vars
  OBVIOUS
<1> QED
  BY <1>1, <1>2, <1>3, <1>4, <1>5, <1>6
     DEF Next, Wizard, OpenWizard, SetRole, TogglePin, BuildPreview, BackToSelect,
         CloseWizard, OnlyScreen, Damage, OpenArtifact, CloseRestore, archiveVars, vars

LEMMA RestoreKept ==
    ASSUME ConfigInv, TextInv, [Next]_vars PROVE RestoreStands'
<1>1. /\ RestoreStands
      /\ archive # << >> => screen.step = "closed"
      /\ archive = << >> => opened.status = "none"
      /\ opened.status # "accepted" => restored = {}
  BY DEF TextInv, ScreenStands, ConfigInv, ArchiveStands
<1>2. CASE Wizard
  <2>1. ports' = ports /\ opened' = opened /\ restored' = restored
    BY <1>2 DEF Wizard, OpenWizard, SetRole, TogglePin, BuildPreview, BackToSelect,
                WriteRoles, CloseWizard, OnlyScreen, restoreVars
  <2>2. disk' = disk \/ screen.step # "closed"
    BY <1>2 DEF Wizard, OpenWizard, SetRole, TogglePin, BuildPreview, BackToSelect,
                WriteRoles, CloseWizard, OnlyScreen
  <2> QED
    BY <1>1, <2>1, <2>2 DEF RestoreStands, Present, ToWrite
<1>3. CASE TakeTo
  <2>1. /\ opened.status = "none" /\ opened' = opened /\ restored' = restored
    BY <1>3 DEF TakeTo, restoreVars
  <2> QED
    BY <1>1, <2>1 DEF RestoreStands
<1>4. CASE OpenArtifact
  <2>1. restored = {} /\ restored' = restored /\ ports' = ports
    BY <1>1, <1>4 DEF OpenArtifact
  <2>2. opened'.status = "accepted" =>
          opened'.missing = MissingRoleDevices(RolesText(opened'.sources), Present)
    <3> DEFINE sources == SourcesFromParts(archive)
    <3>1. PICK verifier \in Keys \cup {NoKey} :
                 opened' = IF Opens(archive, verifier)
                           THEN [status |-> "accepted", sources |-> sources,
                                 verifier |-> verifier, agreed |-> FALSE,
                                 missing |-> MissingRoleDevices(RolesText(sources), Present)]
                           ELSE [NotOpened EXCEPT !.status = "refused"]
      BY <1>4 DEF OpenArtifact
    <3> HIDE DEF sources
    <3>2. CASE Opens(archive, verifier)
      BY <3>1, <3>2
    <3>3. CASE ~Opens(archive, verifier)
      BY <3>1, <3>3 DEF NotOpened
    <3> QED
      BY <3>2, <3>3
  <2> QED
    BY <2>1, <2>2 DEF RestoreStands, Present
<1>5. CASE Restore
  <2>1. PICK items \in Written, agreed \in BOOLEAN :
               /\ agreed <=> opened.missing # {}
               /\ RolesPath \in items => IsSafe(opened.sources[RolesPath])
               /\ disk' = [path \in DOMAIN disk \cup items |->
                             IF path \in items THEN ToWrite(path) ELSE disk[path]]
               /\ restored' = items
               /\ opened' = [opened EXCEPT !.agreed = agreed]
    BY <1>5 DEF Restore
  <2>2. /\ opened'.status = opened.status /\ opened'.sources = opened.sources
        /\ opened'.missing = opened.missing /\ opened'.agreed = agreed
    BY <2>1 DEF ConfigInv, Shapes
  <2>3. ports' = ports
    BY <1>5 DEF Restore
  <2>4. \A path \in restored' : path \in DOMAIN disk' /\ disk'[path] = ToWrite(path)'
    BY <2>1, <2>2 DEF ToWrite
  <2>5. opened'.agreed <=> opened'.missing # {}
    BY <2>1, <2>2
  <2> QED
    BY <1>1, <2>1, <2>2, <2>3, <2>4, <2>5 DEF RestoreStands, Present
<1>6. CASE CloseRestore
  BY <1>6 DEF CloseRestore, RestoreStands, NotOpened
<1>7. CASE /\ disk' = disk /\ ports' = ports /\ opened' = opened /\ restored' = restored
  BY <1>1, <1>7 DEF RestoreStands, Present, ToWrite
<1>8. Next \/ UNCHANGED vars
  OBVIOUS
<1> QED
  BY <1>2, <1>3, <1>4, <1>5, <1>6, <1>7, <1>8
     DEF Next, Export, Damage, restoreVars, vars

LEMMA TextInvariant == Spec => [](ConfigInv /\ TextInv)
<1>1. ConfigInv /\ TextInv /\ [Next]_vars => TextInv'
  <2> SUFFICES ASSUME ConfigInv, TextInv, [Next]_vars PROVE TextInv'
    OBVIOUS
  <2>1. ScreenStands' /\ TextsStand' /\ RestoreStands'
    BY ScreenStep, TextsStep, RestoreKept
  <2> QED
    BY <2>1 DEF TextInv
<1> QED
  BY <1>1, TextInit, InitEstablishes, NextStep, PTL DEF Spec

-----------------------------------------------------------------------------
(* The variables keep their types.                                         *)
THEOREM ConfigTyped == Spec => []TypeOK
<1>1. ConfigInv => TypeOK
  BY DEF ConfigInv
<1> QED
  BY <1>1, ConfigInvariant, PTL

(* An artifact that opens is the one that was exported, whatever one       *)
(* damage there was on the way and whichever key it is verified with       *)
(* (Open, verifyChecksums, verifySignature).                               *)
THEOREM OpenedWasExported == Spec => []OpenedIsExported
<1>1. ConfigInv => OpenedIsExported
  BY DEF ConfigInv, ArchiveStands, OpenedIsExported, Expected
<1> QED
  BY <1>1, ConfigInvariant, PTL

(* What the wizard has written parses to the assignment its rows show,     *)
(* followed by the lines of the file it was opened on that are neither     *)
(* about roles nor comments; comments are dropped (RenderRolesConf,        *)
(* ParseRolesConf).                                                        *)
THEOREM SavedWasShown == Spec => []SavedIsShown
<1>1. ConfigInv /\ TextInv => SavedIsShown
  <2> SUFFICES ASSUME TextInv, screen.step = "written"
               PROVE  ParseRolesConf(disk[RolesPath]) = Shown
    BY DEF SavedIsShown, Shown
  <2>1. Shown \in Confs /\ disk[RolesPath] = RenderRolesConf(Shown)
    BY DEF TextInv, ScreenStands
  <2> QED
    BY <2>1, ParseRendered
<1> QED
  BY <1>1, TextInvariant, PTL

(* The diff shown before a write tells the change from the file to what    *)
(* will be written, whatever the two texts: every line removed or added,   *)
(* and none that could be kept (UnifiedDiff).                              *)
THEOREM DiffWasTheChange == Spec => []DiffShowsTheChange
<1>1. TextInv => DiffShowsTheChange
  <2> SUFFICES ASSUME TextInv, screen.step = "writeConfirm"
               PROVE  TellsTheChange(Diffed(screen.prev, screen.content),
                                     screen.prev, screen.content)
    BY DEF DiffShowsTheChange
  <2>1. screen.prev \in Seq(Lines)
    BY DEF TextInv, ScreenStands
  <2>2. Shown \in Confs /\ screen.content = RenderRolesConf(Shown)
    BY DEF TextInv, ScreenStands
  <2>3. screen.content \in Seq(Lines)
    BY <2>2, ParseRendered
  <2> QED
    BY <2>1, <2>3, DiffTellsTheChange
<1> QED
  BY <1>1, TextInvariant, PTL

(* After a restore, roles.conf names a port the machine does not have only *)
(* if the operator has agreed to that (MissingRoleDevices).                *)
THEOREM AbsentPortsNeedConsent == Spec => []AbsentPortsWereAgreed
<1>1. ConfigInv /\ TextInv => AbsentPortsWereAgreed
  <2> DEFINE named(text) == ToSet(ParseRolesConf(text).wanIfs \o ParseRolesConf(text).lanIfs)
  <2> SUFFICES ASSUME ConfigInv, TextInv, RolesPath \in restored, ~opened.agreed
               PROVE  named(disk[RolesPath]) \subseteq Present
    BY DEF AbsentPortsWereAgreed
  <2>1. /\ opened.status = "accepted" /\ RolesPath \in Items(opened.sources)
        /\ opened.missing = {}
        /\ disk[RolesPath] = SafeRolesConf(opened.sources[RolesPath])
    BY DEF ConfigInv, ArchiveStands, TypeOK, TextInv, RestoreStands, ToWrite
  <2>2. opened.sources[RolesPath] \in Seq(Lines)
    BY <2>1, OpenedTyped DEF TextInv, IsText
  <2>3. ParseRolesConf(disk[RolesPath]) = ParseRolesConf(opened.sources[RolesPath])
    BY <2>1, <2>2, SafeTwice
  <2>4. MissingRoleDevices(opened.sources[RolesPath], Present) = {}
    <3>1. RolesText(opened.sources) = opened.sources[RolesPath]
      BY <2>1 DEF RolesText, Items
    <3> QED
      BY <2>1, <3>1 DEF TextInv, RestoreStands
  <2>5. named(opened.sources[RolesPath]) \ Present = {}
    BY <2>4 DEF MissingRoleDevices
  <2>6. named(disk[RolesPath]) = named(opened.sources[RolesPath])
    BY <2>3
  <2> HIDE DEF named
  <2> QED
    BY <2>5, <2>6
<1> QED
  BY <1>1, TextInvariant, PTL

(* What is listed once is not on both sides.                               *)
LEMMA ListedOnceApart ==
    ASSUME NEW left \in Seq(STRING), NEW right \in Seq(STRING), IsInjective(left \o right)
    PROVE  ToSet(left) \cap ToSet(right) = {}
<1>1. /\ Len(left) \in Nat /\ Len(right) \in Nat
      /\ DOMAIN left = 1 .. Len(left) /\ DOMAIN right = 1 .. Len(right)
      /\ DOMAIN (left \o right) = 1 .. Len(left) + Len(right)
      /\ \A i \in 1 .. Len(left) + Len(right) :
           (left \o right)[i] = IF i <= Len(left) THEN left[i] ELSE right[i - Len(left)]
  BY ConcatProperties, LenProperties
<1> SUFFICES ASSUME NEW i \in DOMAIN left, NEW j \in DOMAIN right, left[i] = right[j]
             PROVE  FALSE
  BY DEF ToSet
<1> DEFINE both == left \o right
           n == Len(left)
<1>2. /\ i \in DOMAIN both /\ both[i] = left[i]
      /\ n + j \in DOMAIN both /\ both[n + j] = right[j]
      /\ i # n + j
  BY <1>1
<1> HIDE DEF both, n
<1>3. \A x, y \in DOMAIN both : both[x] = both[y] => x = y
  BY DEF IsInjective, both
<1> QED
  BY <1>2, <1>3

(* Running the wizard again edits: its rows start as the assignment in the *)
(* file, whatever the ports and the file, when each port is listed once    *)
(* (newWizard, assignment).                                                *)
THEOREM RerunStartsFromFile == Spec => []RerunKeepsAssignment
<1>1. ConfigInv /\ TextInv => RerunKeepsAssignment
  <2> DEFINE conf == ParseRolesConf(RolesText(disk))
             rows == Seeds(RolesText(disk))
             again == Assignment(rows, conf.extras)
  <2> SUFFICES ASSUME ConfigInv, TextInv, ListedOnce(conf)
               PROVE  \A set \in RoleSets : ToSet(again[set]) = ToSet(conf[set])
    BY DEF RerunKeepsAssignment
  <2>1. conf \in Confs
    <3>1. RolesText(disk) \in Seq(Lines)
      BY EmptySeq DEF TextInv, TextsStand, FilesAreTexts, IsText, RolesText
    <3> QED
      BY <3>1, ParseTyped
  <2>2. PICK n \in Nat : /\ DOMAIN ports = 1 .. n
                         /\ \A i \in 1 .. n : /\ ports[i].name \in STRING \ {""}
                                               /\ ports[i].mac \in STRING
    <3> DEFINE Ports == [name : STRING \ {""}, mac : STRING]
    <3>1. PICK machine \in Machines : ports = machine.ports
      BY DEF ConfigInv, TypeOK
    <3>2. ports \in Seq(Ports)
      BY <3>1, MachineFacts
    <3>3. \A port \in Ports : port.name \in STRING \ {""} /\ port.mac \in STRING
      OBVIOUS
    <3> HIDE DEF Ports
    <3> QED
      BY <3>2, <3>3, LenProperties, ElementOfSeq
  <2> DEFINE wanIfs == conf.wanIfs
             lanIfs == conf.lanIfs
             wanMacs == conf.wanMacs
             lanMacs == conf.lanMacs
  <2>3. /\ wanIfs \in Seq(STRING) /\ lanIfs \in Seq(STRING)
        /\ wanMacs \in Seq(STRING) /\ lanMacs \in Seq(STRING)
    <3>1. Plain \subseteq STRING
      BY DEF Plain
    <3> HIDE DEF conf
    <3> QED
      BY <2>1, <3>1, SeqMonotonic DEF Confs
  <2>4. rows = [i \in 1 .. n |-> Seed(ports[i], conf)]
    BY <2>2 DEF Seeds
  <2>5. again = [wanIfs |-> ListedNames(rows, "wan"), wanMacs |-> ListedMacs(rows, "wan"),
                 lanIfs |-> ListedNames(rows, "lan"), lanMacs |-> ListedMacs(rows, "lan"),
                 extras |-> conf.extras]
    BY DEF Assignment
  <2>6. RoleSets = {"wanIfs", "wanMacs", "lanIfs", "lanMacs"}
    BY DEF RoleSets, KeysOf
  <2> HIDE DEF conf, rows, again
  <2>7. /\ ToSet(wanIfs \o lanIfs) = ToSet(wanIfs) \cup ToSet(lanIfs)
        /\ ToSet(wanMacs \o lanMacs) = ToSet(wanMacs) \cup ToSet(lanMacs)
    BY <2>3, JoinMembers
  <2>8. /\ ToSet(wanIfs) \cap ToSet(lanIfs) = {}
        /\ ToSet(wanMacs) \cap ToSet(lanMacs) = {}
    BY <2>3, ListedOnceApart DEF ListedOnce
  <2>9. /\ \A x \in ToSet(wanIfs) \cup ToSet(lanIfs) : \E i \in 1 .. n : x = ports[i].name
        /\ \A x \in ToSet(wanMacs) \cup ToSet(lanMacs) :
             x # "" /\ \E i \in 1 .. n : x = ports[i].mac
        /\ \A i \in 1 .. n : ~(/\ Lists(wanIfs \o lanIfs, ports[i].name)
                                /\ Lists(wanMacs \o lanMacs, ports[i].mac))
    BY <2>2, <2>7 DEF ListedOnce, Present
  <2> HIDE DEF wanIfs, lanIfs, wanMacs, lanMacs
  <2>10. ASSUME NEW i \in 1 .. n
         PROVE  /\ rows[i].name = ports[i].name /\ rows[i].mac = ports[i].mac
                /\ rows[i].role = "wan" /\ ~rows[i].byMac <=> ports[i].name \in ToSet(wanIfs)
                /\ rows[i].role = "lan" /\ ~rows[i].byMac <=> ports[i].name \in ToSet(lanIfs)
                /\ rows[i].role = "wan" /\ rows[i].byMac <=> ports[i].mac \in ToSet(wanMacs)
                /\ rows[i].role = "lan" /\ rows[i].byMac <=> ports[i].mac \in ToSet(lanMacs)
    <3> DEFINE row == rows[i]
               name == ports[i].name
               mac == ports[i].mac
    <3>1. row.name = name /\ row.mac = mac
      BY <2>4 DEF Seed, Row
    <3>2. /\ Lists(wanIfs, name) <=> name \in ToSet(wanIfs)
          /\ Lists(lanIfs, name) <=> name \in ToSet(lanIfs)
          /\ Lists(wanMacs, mac) <=> mac \in ToSet(wanMacs)
          /\ Lists(lanMacs, mac) <=> mac \in ToSet(lanMacs)
      BY <2>2, <2>9 DEF Lists
    <3>3. name \in ToSet(wanIfs) \cup ToSet(lanIfs) =>
            mac \notin ToSet(wanMacs) \cup ToSet(lanMacs)
      BY <2>2, <2>7, <2>9 DEF Lists
    <3>4. row = IF name \in ToSet(wanIfs) THEN Row(ports[i], "wan", FALSE)
                ELSE IF mac \in ToSet(wanMacs) THEN Row(ports[i], "wan", TRUE)
                ELSE IF name \in ToSet(lanIfs) THEN Row(ports[i], "lan", FALSE)
                ELSE IF mac \in ToSet(lanMacs) THEN Row(ports[i], "lan", TRUE)
                ELSE Row(ports[i], "none", FALSE)
      BY <2>4, <3>2 DEF Seed, wanIfs, lanIfs, wanMacs, lanMacs
    <3>5. \A role, byMac : /\ Row(ports[i], role, byMac).role = role
                           /\ Row(ports[i], role, byMac).byMac = byMac
      BY DEF Row
    <3> HIDE DEF row, name, mac
    <3>6. CASE name \in ToSet(wanIfs)
      <4>1. row.role = "wan" /\ row.byMac = FALSE
        BY <3>4, <3>5, <3>6
      <4> QED
        BY <2>8, <3>1, <3>3, <3>6, <4>1 DEF row, name, mac
    <3>7. CASE name \in ToSet(lanIfs)
      <4>1. row.role = "lan" /\ row.byMac = FALSE
        BY <2>8, <3>3, <3>4, <3>5, <3>7
      <4> QED
        BY <2>8, <3>1, <3>3, <3>7, <4>1 DEF row, name, mac
    <3>8. CASE mac \in ToSet(wanMacs)
      <4>1. row.role = "wan" /\ row.byMac = TRUE
        BY <3>3, <3>4, <3>5, <3>8
      <4> QED
        BY <2>8, <3>1, <3>3, <3>8, <4>1 DEF row, name, mac
    <3>9. CASE mac \in ToSet(lanMacs)
      <4>1. row.role = "lan" /\ row.byMac = TRUE
        BY <2>8, <3>3, <3>4, <3>5, <3>9
      <4> QED
        BY <2>8, <3>1, <3>3, <3>9, <4>1 DEF row, name, mac
    <3>10. CASE /\ name \notin ToSet(wanIfs) \cup ToSet(lanIfs)
                /\ mac \notin ToSet(wanMacs) \cup ToSet(lanMacs)
      <4>1. row.role = "none"
        BY <3>4, <3>5, <3>10
      <4> QED
        BY <3>1, <3>10, <4>1 DEF row, name, mac
    <3> QED
      BY <3>6, <3>7, <3>8, <3>9, <3>10
  <2>11. \A role, x :
           /\ x \in ToSet(ListedNames(rows, role)) <=>
                \E i \in 1 .. n : rows[i].role = role /\ ~rows[i].byMac /\ x = rows[i].name
           /\ x \in ToSet(ListedMacs(rows, role)) <=>
                \E i \in 1 .. n : rows[i].role = role /\ rows[i].byMac /\ x = rows[i].mac
    <3>1. rows = [i \in 1 .. n |-> rows[i]]
      BY <2>4
    <3>2. AreRows(rows, n)
      BY <2>2, <2>10, <3>1 DEF AreRows
    <3> QED
      BY <3>2, ListedTyped
  <2>12. /\ ToSet(ListedNames(rows, "wan")) = ToSet(wanIfs)
         /\ ToSet(ListedNames(rows, "lan")) = ToSet(lanIfs)
    <3>1. ASSUME NEW x
          PROVE  x \in ToSet(ListedNames(rows, "wan")) <=> x \in ToSet(wanIfs)
      <4>1. x \in ToSet(ListedNames(rows, "wan")) <=>
              \E i \in 1 .. n : ports[i].name \in ToSet(wanIfs) /\ x = ports[i].name
        BY <2>10, <2>11
      <4>2. x \in ToSet(wanIfs) => \E i \in 1 .. n : x = ports[i].name
        BY <2>9
      <4> QED
        BY <4>1, <4>2
    <3>2. ASSUME NEW x
          PROVE  x \in ToSet(ListedNames(rows, "lan")) <=> x \in ToSet(lanIfs)
      <4>1. x \in ToSet(ListedNames(rows, "lan")) <=>
              \E i \in 1 .. n : ports[i].name \in ToSet(lanIfs) /\ x = ports[i].name
        BY <2>10, <2>11
      <4>2. x \in ToSet(lanIfs) => \E i \in 1 .. n : x = ports[i].name
        BY <2>9
      <4> QED
        BY <4>1, <4>2
    <3> QED
      BY <3>1, <3>2
  <2>13. /\ ToSet(ListedMacs(rows, "wan")) = ToSet(wanMacs)
         /\ ToSet(ListedMacs(rows, "lan")) = ToSet(lanMacs)
    <3>1. ASSUME NEW x
          PROVE  x \in ToSet(ListedMacs(rows, "wan")) <=> x \in ToSet(wanMacs)
      <4>1. x \in ToSet(ListedMacs(rows, "wan")) <=>
              \E i \in 1 .. n : ports[i].mac \in ToSet(wanMacs) /\ x = ports[i].mac
        BY <2>10, <2>11
      <4>2. x \in ToSet(wanMacs) => \E i \in 1 .. n : x = ports[i].mac
        BY <2>9
      <4> QED
        BY <4>1, <4>2
    <3>2. ASSUME NEW x
          PROVE  x \in ToSet(ListedMacs(rows, "lan")) <=> x \in ToSet(lanMacs)
      <4>1. x \in ToSet(ListedMacs(rows, "lan")) <=>
              \E i \in 1 .. n : ports[i].mac \in ToSet(lanMacs) /\ x = ports[i].mac
        BY <2>10, <2>11
      <4>2. x \in ToSet(lanMacs) => \E i \in 1 .. n : x = ports[i].mac
        BY <2>9
      <4> QED
        BY <4>1, <4>2
    <3> QED
      BY <3>1, <3>2
  <2> QED
    BY <2>5, <2>6, <2>12, <2>13 DEF wanIfs, lanIfs, wanMacs, lanMacs
<1> QED
  BY <1>1, TextInvariant, PTL

(* A machine's own artifact previews no change on it, while it has not     *)
(* been changed and holds no control character (Assemble, Open, Diff).     *)
THEOREM ExportComesBack == Spec => []ExportRoundTrips
<1>1. ConfigInv /\ TextInv => ExportRoundTrips
  <2> DEFINE sources == origin.sources
             target == opened.sources
             diff == Diff(sources, target)
  <2> SUFFICES ASSUME ConfigInv, TextInv, opened.status = "accepted",
                      CollectSources(disk) = sources, ~HasControl(sources)
               PROVE  ~HasChanges(diff)
    BY DEF ExportRoundTrips, Preview
  <2>1. target = Expected(sources) /\ FilesAreTexts(sources)
    BY DEF ConfigInv, ArchiveStands, TextInv, TextsStand
  <2>2. DOMAIN target = Items(sources)
    BY <2>1 DEF Expected
  <2> HIDE DEF target
  <2>3. ASSUME NEW path \in Items(sources)
        PROVE  /\ Has(sources, path) /\ Has(target, path)
               /\ Normalized(path, target[path]) = Normalized(path, sources[path])
    <3>1. path \in DOMAIN sources /\ Has(sources, path) /\ path \in DOMAIN target
      BY <2>2 DEF Items
    <3>2. path # RolesPath => ~HasControls(sources[path])
      BY <3>1 DEF HasControl, HasControls
    <3>3. /\ IsText(path, target[path]) /\ IsText(path, sources[path])
          /\ Normalized(path, target[path]) = Normalized(path, sources[path])
      BY <2>1, <3>1, <3>2, ExpectedTyped DEF FilesAreTexts
    <3>4. IsBlank(path, target[path]) <=> IsBlank(path, sources[path])
      BY <3>3, BlankIsNothing
    <3> QED
      BY <3>1, <3>3, <3>4 DEF Has
  <2>4. DOMAIN diff \subseteq Items(sources)
    <3>1. Items(target) \subseteq Items(sources)
      BY <2>2 DEF Items
    <3> QED
      BY <3>1 DEF Diff
  <2>5. ASSUME NEW path \in DOMAIN diff PROVE diff[path] = "unchanged"
    <3>1. diff[path] = ChangeKind(sources, target, path)
      BY DEF Diff
    <3> QED
      BY <2>3, <2>4, <3>1 DEF ChangeKind
  <2> QED
    BY <2>5 DEF HasChanges
<1> QED
  BY <1>1, TextInvariant, PTL

(* After a restore that wrote everything, restoring again would write      *)
(* nothing new: only what the machine alone has is listed (Collect, Diff,  *)
(* WriteConfig).                                                           *)
THEOREM RestoreIsIdempotent == Spec => []RestoreIsFixedPoint
<1>1. ConfigInv /\ TextInv => RestoreIsFixedPoint
  <2> DEFINE sources == origin.sources
             target == opened.sources
             current == CollectSources(disk)
             diff == Diff(current, target)
  <2> SUFFICES ASSUME ConfigInv, TextInv, restored # {}, restored = Items(target)
               PROVE  \A path \in DOMAIN diff : diff[path] \in {"unchanged", "remove"}
    BY DEF RestoreIsFixedPoint, Preview
  <2>1. /\ opened.status = "accepted" /\ TextsStand /\ FilesAreTexts(sources)
        /\ target = Expected(sources)
        /\ \A path \in restored : path \in DOMAIN disk /\ disk[path] = ToWrite(path)
        /\ RolesPath \in restored => IsSafe(target[RolesPath])
    BY DEF ConfigInv, ArchiveStands, TextInv, TextsStand, RestoreStands
  <2> HIDE DEF target
  <2>2. ASSUME NEW path \in Items(target)
        PROVE  /\ Has(current, path)
               /\ Normalized(path, current[path]) = Normalized(path, target[path])
    <3>1. /\ path \in DOMAIN disk /\ disk[path] = ToWrite(path)
          /\ path \in Items(sources) /\ IsText(path, target[path])
          /\ DOMAIN current = DOMAIN disk
          /\ Has(target, path)
      BY <2>1, OpenedTyped DEF CollectSources, Items, target
    <3>2. CASE path = RolesPath
      <4>1. target[path] = sources[path] /\ IsSafe(target[path])
        BY <2>1, <3>1, <3>2, ExpectedTyped
      <4>2. SafeRolesConf(target[path]) = target[path]
        <5>1. path \in DOMAIN sources
          BY <3>1 DEF Items
        <5> QED
          BY <2>1, <3>2, <4>1, <5>1 DEF TextsStand
      <4>3. disk[path] = target[path]
        BY <3>1, <3>2, <4>2 DEF ToWrite, target
      <4>4. current[path] = target[path]
        <5>1. path.subsystem # "wireguard"
          BY <3>2 DEF RolesPath, Path
        <5> QED
          BY <3>1, <3>2, <4>1, <4>2, <4>3, <5>1 DEF CollectSources
      <4> QED
        BY <3>1, <4>4 DEF Has
    <3>3. CASE path # RolesPath /\ path.subsystem = "wireguard"
      <4>1. disk[path] = target[path] /\ target[path] \in Seq(AnyWords)
        BY <3>1, <3>3 DEF ToWrite, IsText, target
      <4>2. ~HasKeys(target[path])
        <5>1. ~HasKeys(sources[path])
          BY <3>1, <3>3 DEF ConfigInv, FilesStand, TunnelsStripped
        <5> QED
          BY <2>1, <3>1, <3>3, <5>1, ExpectedTyped
      <4>3. current[path] = Trimmed(target[path])
        <5>1. current[path] = StripWireguard(disk[path])
          BY <3>1, <3>3 DEF CollectSources
        <5> QED
          BY <4>1, <4>2, <5>1, KeysAreStripped
      <4>4. Normalized(path, current[path]) = Normalized(path, target[path])
        BY <3>1, <4>3, TrimmedSaysTheSame
      <4> QED
        BY <3>1, <3>3, <4>4 DEF Has, Keyed
    <3>4. CASE path # RolesPath /\ path.subsystem # "wireguard"
      <4>1. current[path] = target[path]
        BY <3>1, <3>4 DEF CollectSources, ToWrite, target
      <4> QED
        BY <3>1, <4>1 DEF Has
    <3> QED
      BY <3>2, <3>3, <3>4
  <2> HIDE DEF current
  <2> SUFFICES ASSUME NEW path \in DOMAIN diff PROVE diff[path] \in {"unchanged", "remove"}
    OBVIOUS
  <2>3. diff[path] = ChangeKind(current, target, path)
    BY DEF Diff
  <2>4. CASE Has(target, path)
    <3>1. path \in Items(target)
      BY <2>4 DEF Items, Has
    <3> QED
      BY <2>2, <2>3, <2>4, <3>1 DEF ChangeKind
  <2>5. CASE ~Has(target, path)
    BY <2>3, <2>5 DEF ChangeKind
  <2> QED
    BY <2>4, <2>5
<1> QED
  BY <1>1, TextInvariant, PTL

(* An item the preview calls unchanged means the same on the disk after    *)
(* the restore, roles.conf too, although it is written without its         *)
(* comments, and but for the key lines of a tunnel (ChangeUnchanged in     *)
(* preview.go).                                                            *)
THEOREM UnchangedStays == Spec => UnchangedIsLeft
<1> DEFINE Left == restored' # {} /\ restored = {} =>
                     \A path \in restored' :
                        Preview[path] = "unchanged" =>
                          Meaning(path, disk'[path]) = Meaning(path, disk[path])
<1>1. ConfigInv /\ TextInv /\ [Next]_vars => [Left]_vars
  <2> SUFFICES ASSUME ConfigInv, TextInv, Next, restored' # {}, restored = {},
                      NEW path \in restored', Preview[path] = "unchanged"
               PROVE  Meaning(path, disk'[path]) = Meaning(path, disk[path])
    OBVIOUS
  <2> DEFINE sources == origin.sources
             target == opened.sources
             current == CollectSources(disk)
  <2>1. Restore
    BY DEF Next, Wizard, OpenWizard, SetRole, TogglePin, BuildPreview, BackToSelect,
           WriteRoles, CloseWizard, OnlyScreen, Export, Damage, TakeTo, OpenArtifact,
           CloseRestore, restoreVars
  <2>2. /\ opened.status = "accepted" /\ path \in Items(target)
        /\ disk'[path] = IF path = RolesPath THEN SafeRolesConf(target[path])
                         ELSE target[path]
        /\ path = RolesPath => IsSafe(target[path])
    BY <2>1 DEF Restore, Written, ToWrite
  <2>3. /\ TextsStand /\ FilesAreTexts(disk) /\ FilesAreTexts(sources)
    BY DEF TextInv, TextsStand
  <2>4. /\ target = Expected(sources) /\ path \in Items(sources)
        /\ IsText(path, target[path])
    BY <2>2, <2>3, OpenedTyped
  <2> HIDE DEF target
  <2>5. /\ Has(target, path) /\ Preview[path] = ChangeKind(current, target, path)
    BY <2>2 DEF Items, Preview, Diff, target
  <2>6. /\ Has(current, path)
        /\ Normalized(path, current[path]) = Normalized(path, target[path])
    BY <2>5 DEF ChangeKind
  <2>7. path \in DOMAIN disk /\ IsText(path, disk[path])
    BY <2>3, <2>6 DEF Has, CollectSources, FilesAreTexts
  <2>8. CASE path # RolesPath /\ path.subsystem # "wireguard"
    <3>1. current[path] = disk[path]
      BY <2>2, <2>7, <2>8 DEF CollectSources
    <3> QED
      BY <2>2, <2>6, <2>8, <3>1 DEF Meaning
  <2>9. CASE path # RolesPath /\ path.subsystem = "wireguard"
    <3>1. current[path] = StripWireguard(disk[path])
      BY <2>2, <2>7, <2>9 DEF CollectSources
    <3>2. ~HasKeys(target[path])
      <4>1. ~HasKeys(sources[path])
        BY <2>4, <2>9 DEF ConfigInv, FilesStand, TunnelsStripped
      <4> QED
        BY <2>2, <2>3, <2>4, <2>9, <4>1, ExpectedTyped
    <3>3. StripWireguard(target[path]) = Trimmed(target[path])
      <4>1. target[path] \in Seq(AnyWords)
        BY <2>4, <2>9 DEF IsText
      <4> QED
        BY <3>2, <4>1, KeysAreStripped
    <3>4. Normalized(path, Trimmed(target[path])) = Normalized(path, target[path])
      BY <2>4, TrimmedSaysTheSame
    <3> QED
      BY <2>2, <2>6, <2>9, <3>1, <3>3, <3>4 DEF Meaning
  <2>10. CASE path = RolesPath
    <3>1. /\ disk[path] \in Seq(Lines) /\ target[path] \in Seq(Lines)
          /\ path.subsystem # "wireguard"
      BY <2>4, <2>7, <2>10 DEF IsText, RolesPath, Path
    <3>2. current[path] = target[path]
      BY <2>6, <2>10 DEF Normalized
    <3>3. ParseRolesConf(current[path]) = ParseRolesConf(disk[path])
      <4>1. current[path] \in {disk[path], SafeRolesConf(disk[path])}
        BY <2>7, <2>10, <3>1 DEF CollectSources
      <4> QED
        BY <3>1, <4>1, SafeTwice
    <3>4. ParseRolesConf(disk'[path]) = ParseRolesConf(target[path])
      BY <2>2, <2>10, <3>1, SafeTwice
    <3> QED
      BY <2>10, <3>1, <3>2, <3>3, <3>4 DEF Meaning
  <2> QED
    BY <2>8, <2>9, <2>10
<1>2. Spec => [][Left]_vars
  BY <1>1, TextInvariant, PTL DEF Spec
<1> QED
  BY <1>2 DEF UnchangedIsLeft
=============================================================================
