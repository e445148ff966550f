------------------------------- MODULE XmlText -------------------------------
(***************************************************************************)
(* The text of an XML node, as StrPair::GetStr() (src/tinyxml2.cpp) reads  *)
(* it the first time it is asked for: in place, with a pointer p that      *)
(* reads and a pointer q that writes, newlines become LF, entities and     *)
(* character references the characters they stand for.  Bytes are numbers; *)
(* start is 1.                                                             *)
(*                                                                         *)
(* The texts that are read are those SonosInterface::FormatMetaData()      *)
(* (src/SonosInterface.cpp) writes, and those put together from units, of  *)
(* which it is known what they stand for.                                  *)
(***************************************************************************)
EXTENDS Integers, Sequences, SequencesExt

CONSTANTS
    Units,       \* bound: [chars, bytes], and what kind of unit it is
    Titles,      \* bound: what is put into metadata
    MaxUnits,    \* bound: units of a text
    Width        \* an unsigned is less: 2^32 in the build

ASSUME UnitsAssumption == \A u \in Units :
    u.kind \in {"plain", "newline", "reference", "unknown"} /\ u.chars \in Seq(1 .. 255)
ASSUME TitlesAssumption == Titles \subseteq Seq(1 .. 255)
ASSUME WidthAssumption == MaxUnits \in Nat /\ Width \in Nat \ {0}

NUL == 0
LF == 10
CR == 13
Quot == 34
Hash == 35
Amp == 38
Apos == 39
Semicolon == 59
Lt == 60
Gt == 62
X == 120
Digit(c) == CASE c \in 48 .. 57 -> c - 48
              [] c \in 97 .. 102 -> c - 87
              [] c \in 65 .. 70 -> c - 55
              [] OTHER -> -1

VARIABLES
    buf,          \* the text, and the byte after it
    end,          \* _end
    p, q,         \* as in the code
    entities,     \* _flags & NEEDS_ENTITY_PROCESSING: not for comments
    done,
    original,     \* history: the text that was there
    meaning,      \* history: what it stands for
    kept          \* history: no '&' of an unknown entity came after something shorter,
                  \* and no reference was too long for the unsigned it is read into

vars == <<buf, end, p, q, entities, done, original, meaning, kept>>
-----------------------------------------------------------------------------
(* SonosInterface::FormatMetaData(): every byte of the metadata, escaped *)

\* Mutation of MustEscape: the ampersand is left alone.
MustEscapeLess(c) ==
    CASE c = Lt   -> <<Amp, 108, 116, Semicolon>>
      [] c = Gt   -> <<Amp, 103, 116, Semicolon>>
      [] c = Quot -> <<Amp, 113, 117, 111, 116, Semicolon>>
      [] c = Apos -> <<Amp, 97, 112, 111, 115, Semicolon>>
      [] OTHER    -> <<c>>

MustEscape(c) ==
    CASE c = Lt   -> <<Amp, 108, 116, Semicolon>>
      [] c = Gt   -> <<Amp, 103, 116, Semicolon>>
      [] c = Quot -> <<Amp, 113, 117, 111, 116, Semicolon>>
      [] c = Amp  -> <<Amp, 97, 109, 112, Semicolon>>
      [] c = Apos -> <<Amp, 97, 112, 111, 115, Semicolon>>
      [] OTHER    -> <<c>>

FormatMetaData(title) == FlattenSeq([i \in DOMAIN title |-> MustEscape(title[i])])

Texts == {u \in UNION {[1 .. n -> Units] : n \in 0 .. MaxUnits} :
    \A i \in 1 .. Len(u) - 1 :
        /\ ~(u[i].kind = "newline" /\ u[i + 1].kind = "newline")
        /\ u[i].chars # <<Amp, Hash>>}

\* GetStr() begins: *_end = 0.
Begin(chars, bytes) ==
    /\ buf = Append(chars, NUL)
    /\ end = Len(chars) + 1
    /\ p = 1 /\ q = 1
    /\ done = FALSE
    /\ original = chars
    /\ meaning = bytes
    /\ kept = TRUE

Init ==
    \/ /\ entities \in BOOLEAN
       /\ \E u \in Texts :
            Begin(FlattenSeq([i \in DOMAIN u |-> u[i].chars]),
                  FlattenSeq([i \in DOMAIN u |-> IF entities \/ u[i].kind = "newline"
                                                THEN u[i].bytes ELSE u[i].chars]))
    \/ /\ entities = TRUE
       /\ \E t \in Titles : Begin(FormatMetaData(t), t)
-----------------------------------------------------------------------------
(* The loop of GetStr(), one pass a step *)

\* n bytes are read and those of s written, one after the other.
Turn(n, s) ==
    /\ buf' = [i \in DOMAIN buf |-> IF i \in q .. q + Len(s) - 1 THEN s[i - q + 1] ELSE buf[i]]
    /\ p' = p + n
    /\ q' = q + Len(s)

Reading == ~done /\ p < end
AtNewline == buf[p] \in {CR, LF}
AtEntity == entities /\ buf[p] = Amp

\* Mutation of NormalizeNewline: to the two bytes of Windows.
NormalizeToCRLF ==
    /\ Reading /\ AtNewline
    /\ LET other == IF buf[p] = CR THEN LF ELSE CR
       IN Turn(IF buf[p + 1] = other THEN 2 ELSE 1, <<CR, LF>>)
    /\ UNCHANGED <<end, entities, done, original, meaning, kept>>

\* CR LF, LF CR, and either of them alone.
NormalizeNewline ==
    /\ Reading /\ AtNewline
    /\ LET other == IF buf[p] = CR THEN LF ELSE CR
       IN Turn(IF buf[p + 1] = other THEN 2 ELSE 1, <<LF>>)
    /\ UNCHANGED <<end, entities, done, original, meaning, kept>>

Copy ==
    /\ Reading /\ ~AtNewline /\ ~AtEntity
    /\ Turn(1, <<buf[p]>>)
    /\ UNCHANGED <<end, entities, done, original, meaning, kept>>

\* ConvertUTF32ToUTF8(): no byte at all from 0x200000 on.
Low(c) == 128 + (c % 64)
Utf8(c) ==
    CASE c < 128                     -> <<c>>
      [] 128 <= c /\ c < 2048        -> <<192 + (c \div 64), Low(c)>>
      [] 2048 <= c /\ c < 65536      -> <<224 + (c \div 4096), Low(c \div 64), Low(c)>>
      [] 65536 <= c /\ c < 2097152   ->
            <<240 + (c \div 262144), Low(c \div 4096), Low(c \div 64), Low(c)>>
      [] 2097152 <= c                -> << >>

\* GetCharacterRef(): the digits back from the ';' with their weights, in
\* unsigned arithmetic.
Hex == buf[p + 2] = X
FirstDigit == p + IF Hex THEN 3 ELSE 2
Base == IF Hex THEN 16 ELSE 10
Ends == {i \in FirstDigit .. Len(buf) : buf[i] = Semicolon}
End == CHOOSE i \in Ends : \A j \in Ends : i <= j
\* The loop stops at the last 'x' or '#'.
Marks == {i \in p + 1 .. End - 1 : buf[i] = IF Hex THEN X ELSE Hash}
Digits == (CHOOSE i \in Marks : \A j \in Marks : j <= i) + 1 .. End - 1
IsRef == /\ buf[p + 1] = Hash /\ buf[p + 2] # NUL
         /\ ~(Hex /\ buf[p + 3] = NUL)
         /\ Ends # {}
         /\ \A i \in Digits : Digit(buf[i]) \in 0 .. Base - 1
Weight[n \in Nat] == IF n = 0 THEN 1 ELSE (Base * Weight[n - 1]) % Width
Code == FoldSet(LAMBDA i, c : (c + Digit(buf[i]) * Weight[End - 1 - i]) % Width, 0, Digits)

\* No product or sum in there passes the width of an unsigned.
RefFits == Base ^ Cardinality(Digits) < Width

CharacterRef ==
    /\ Reading /\ AtEntity
    /\ IsRef
    /\ Turn(End + 1 - p, Utf8(Code))
    /\ kept' = (kept /\ RefFits)
    /\ UNCHANGED <<end, entities, done, original, meaning>>

\* It is none: the '&' is copied; "&#" at the end of the text is the '#' alone.
NoRef ==
    /\ Reading /\ AtEntity
    /\ buf[p + 1] = Hash /\ ~IsRef
    /\ Turn(1, IF buf[p + 2] = NUL THEN << >> ELSE <<Amp>>)
    /\ kept' = (kept /\ buf[p + 2] # NUL)
    /\ UNCHANGED <<end, entities, done, original, meaning>>

\* The table of entities
Entity == {[pattern |-> <<113, 117, 111, 116>>, value |-> Quot],
           [pattern |-> <<97, 109, 112>>, value |-> Amp],
           [pattern |-> <<97, 112, 111, 115>>, value |-> Apos],
           [pattern |-> <<108, 116>>, value |-> Lt],
           [pattern |-> <<103, 116>>, value |-> Gt]}
Matching == {e \in Entity :
    IsPrefix(Append(e.pattern, Semicolon), SubSeq(buf, p + 1, Len(buf)))}

EntityFound == \E e \in Matching :
    /\ Reading /\ AtEntity
    /\ Turn(Len(e.pattern) + 2, <<e.value>>)
    /\ UNCHANGED <<end, entities, done, original, meaning, kept>>

\* An entity that is not in the table: ++p, ++q, and nothing is written at q.
EntityUnknown ==
    /\ Reading /\ AtEntity
    /\ buf[p + 1] # Hash /\ Matching = {}
    /\ Turn(1, <<buf[q]>>)
    /\ kept' = (kept /\ buf[q] = Amp)
    /\ UNCHANGED <<end, entities, done, original, meaning>>

\* *q = 0
Finish ==
    /\ ~done /\ p >= end
    /\ Turn(0, <<NUL>>)
    /\ done' = TRUE
    /\ UNCHANGED <<end, entities, original, meaning, kept>>

Next ==
    \/ NormalizeNewline \/ Copy \/ CharacterRef \/ NoRef \/ EntityFound \/ EntityUnknown \/ Finish

Spec == Init /\ [][Next]_vars
-----------------------------------------------------------------------------
(* Properties *)

TypeOK ==
    /\ buf \in Seq(0 .. 255) /\ Len(buf) = Len(original) + 1
    /\ end = Len(buf)
    /\ p \in 1 .. end /\ q \in 1 .. end + 1
    /\ {entities, done, kept} \subseteq BOOLEAN

\* Up to the first NUL
CString(s) ==
    LET nuls == {i \in DOMAIN s : s[i] = NUL}
    IN IF nuls = {} THEN s ELSE SubSeq(s, 1, (CHOOSE i \in nuls : \A j \in nuls : i <= j) - 1)

\* The pointer that writes never overtakes the one that reads: what is still to
\* be read is as it was, whatever has been shortened before it.  (And everything
\* has its type.)
UnreadIntact == TypeOK /\ (~done => q <= p /\ SubSeq(buf, p, end - 1) = SubSeq(original, p, end - 1))

\* The string returned is what the text stands for: newlines, entities, references
\* of up to four bytes, and what FormatMetaData() escaped.  With two provisos, both
\* in kept: an unknown entity that comes after something shorter loses its '&',
\* nothing being written for it, and nothing is said of a text with a reference
\* that overflows (ReferencesFit).
DecodedIsMeaning == done /\ kept => CString(buf) = CString(meaning)

\* The asserts of GetCharacterRef() on its products and sums ("mult <= UINT_MAX /
\* 10"), which the build compiles out: no text has a reference that overflows.  The
\* text is a player's, the reference of 16777281 decodes to an 'A' if an unsigned
\* has 24 bits, and no run claims it.
ReferencesFit == Reading /\ AtEntity /\ IsRef => RefFits
==============================================================================
